---- MODULE Spec2Model ----
(***************************************************************************)
(* Merge train of mergify_engine/queue/merge_train.py: one Train (one      *)
(* repository, one target branch), its TrainCars and waiting pulls, the    *)
(* persisted document and the part of the hosting platform the train       *)
(* reads (branch head, merged pull requests).                              *)
(*                                                                         *)
(* Each Train method is a pure operator on a train record                  *)
(*   [cars, waiting_pulls, current_base_sha]                               *)
(* and each action applies one whole method, its trailing save included.   *)
(* Fields of TrainCar that no checked property reads (creation_date,       *)
(* last_checks, last_evaluated_conditions, the train back-reference) are   *)
(* left out of the car record.                                             *)
(***************************************************************************)
EXTENDS Integers, Sequences, FiniteSets, TLC

\* ---------------------------------------------------------------- bounds
MaxPR == 3          \* pull requests are numbered 1..MaxPR
MaxQueued == 3      \* the train holds at most MaxQueued pull requests
MaxPriority == 2    \* effective priorities are 1..MaxPriority
MaxTime == 2        \* the clock goes from 0 to MaxTime
MaxBatched == 4     \* pull requests 1..MaxBatched fill two batches of two
MaxSplit == 6       \* pull requests 1..MaxSplit fill a batch of four and more

PullNumbers == 1..MaxPR
Priorities == 1..MaxPriority

\* ------------------------------------------------------- null / constants
NoPull == 0                 \* queue_pull_request_number = None
NoBranch == <<>>            \* head_branch = None
\* a host on which no synthetic ref exists and no call was made
NoHost == [refs |-> {}, refused |-> {}, checks |-> {}, signals |-> {},
           calls |-> <<>>]
\* no operation is in progress
NoTasks == <<>>
\* no request is being carried out
NoRequest == [attempts |-> <<>>, result |-> "none", error |-> "none"]
NoSha == 0                  \* current_base_sha = None
InitialSha == 100           \* head of the target branch at start
DraftNumberOffset == 10     \* number the host gives to a draft pull request

merge_commit_sha(n) == InitialSha + n
ExternalSha == 200          \* a commit pushed on the target branch by someone else

\* ------------------------------------------------------------ queue rules
\* rules.QueueRule.config of the queues of the configuration file; the
\* batches of the queue "wait" are held back for one unit of time
QueueRules ==
  [ one |-> [speculative_checks |-> 1, batch_size |-> 3,
             batch_max_wait_time |-> 0,
             allow_checks_interruption |-> FALSE,
             allow_inplace_checks |-> TRUE,
             checks_timeout |-> TRUE],
    two |-> [speculative_checks |-> 2, batch_size |-> 2,
             batch_max_wait_time |-> 0,
             allow_checks_interruption |-> TRUE,
             allow_inplace_checks |-> FALSE,
             checks_timeout |-> FALSE],
    wait |-> [speculative_checks |-> 2, batch_size |-> 3,
              batch_max_wait_time |-> 1,
              allow_checks_interruption |-> TRUE,
              allow_inplace_checks |-> FALSE,
              checks_timeout |-> FALSE],
    four |-> [speculative_checks |-> 2, batch_size |-> 4,
              batch_max_wait_time |-> 0,
              allow_checks_interruption |-> TRUE,
              allow_inplace_checks |-> FALSE,
              checks_timeout |-> FALSE],
    solo |-> [speculative_checks |-> 1, batch_size |-> 3,
              batch_max_wait_time |-> 0,
              allow_checks_interruption |-> FALSE,
              allow_inplace_checks |-> FALSE,
              checks_timeout |-> FALSE] ]

QueueNames == DOMAIN QueueRules

\* queue.PullQueueConfig as test_train.get_config builds it, with the fields
\* the train reads
get_config(queue_name, effective_priority) ==
  [name |-> queue_name,
   effective_priority |-> effective_priority,
   queue_config |-> [allow_checks_interruption |->
                       QueueRules[queue_name].allow_checks_interruption]]

\* the configurations pull requests are queued with: every priority in the
\* queue that allows interruption, the highest one in the queue that does not
Configs ==
  {get_config("two", p) : p \in Priorities} \cup {get_config("one", MaxPriority)}

\* the configurations of the pull requests queued in the queue "wait"
WaitConfigs == {get_config("wait", p) : p \in Priorities}

\* outcome of the host calls made when a car starts to be checked
Outcomes == {"ok", "postponed", "failed"}
\* a refresh starts at most one car more than the largest speculative_checks
MaxStarts == QueueRules.two.speculative_checks + 1
OutcomeSeqs == [1..MaxStarts -> Outcomes]
AllOk == [j \in 1..MaxStarts |-> "ok"]

\* ------------------------------------------------------------- data model
EmbarkedPull(n, config, t) ==
  [user_pull_request_number |-> n, config |-> config, queued_at |-> t]

TrainCar(initial, parents, base_sha, history) ==
  [initial_embarked_pulls |-> initial,
   still_queued_embarked_pulls |-> initial,
   parent_pull_request_numbers |-> parents,
   initial_current_base_sha |-> base_sha,
   creation_state |-> "pending",
   checks_conclusion |-> "pending",
   queue_pull_request_number |-> NoPull,
   failure_history |-> history,
   head_branch |-> NoBranch,
   has_timed_out |-> FALSE]

Train(cs, wp, sha) ==
  [cars |-> cs, waiting_pulls |-> wp, current_base_sha |-> sha]

\* ---------------------------------------------------------------- helpers
Numbers(eps) == [i \in 1..Len(eps) |-> eps[i].user_pull_request_number]

RECURSIVE FlattenStill(_)
FlattenStill(cs) ==
  IF cs = <<>> THEN <<>>
  ELSE Head(cs).still_queued_embarked_pulls \o FlattenStill(Tail(cs))

number_of_pulls_in_cars(cs) == Len(FlattenStill(cs))

SeqMin(S) == CHOOSE x \in S : \A y \in S : x <= y

RemoveAt(s, i) == SubSeq(s, 1, i - 1) \o SubSeq(s, i + 1, Len(s))
InsertAt(s, i, e) == SubSeq(s, 1, i - 1) \o <<e>> \o SubSeq(s, i, Len(s))
DropLast(s) == SubSeq(s, 1, Len(s) - 1)

\* xs without the elements equal to n
RECURSIVE Without(_, _)
Without(xs, n) ==
  IF xs = <<>> THEN <<>>
  ELSE IF Head(xs) = n THEN Without(Tail(xs), n)
  ELSE <<Head(xs)>> \o Without(Tail(xs), n)

\* Train._iter_embarked_pulls: the pulls of the cars in order, then the
\* waiting pulls; car is the index of the car, 0 for None
RECURSIVE IterCars(_, _)
IterCars(cs, i) ==
  IF i > Len(cs) THEN <<>>
  ELSE [j \in 1..Len(cs[i].still_queued_embarked_pulls) |->
          [embarked_pull |-> cs[i].still_queued_embarked_pulls[j], car |-> i]]
       \o IterCars(cs, i + 1)

iter_embarked_pulls(T) ==
  IterCars(T.cars, 1)
  \o [j \in 1..Len(T.waiting_pulls) |->
        [embarked_pull |-> T.waiting_pulls[j], car |-> 0]]

get_pulls(T) == Numbers(FlattenStill(T.cars) \o T.waiting_pulls)

\* a mutation of get_pulls_branch_ref: the branch is named after the first
\* pull only
get_pulls_branch_ref_first(car) ==
  <<car.initial_embarked_pulls[1].user_pull_request_number>>

\* TrainCar._get_pulls_branch_ref: the hyphen-join of the numbers of the
\* initial embarked pulls, kept as the sequence of the joined numbers
get_pulls_branch_ref(car) == Numbers(car.initial_embarked_pulls)

\* a mutation of has_previous_car_status_succeeded: the cars before are
\* not looked at
has_previous_car_status_any(cs, i) == i >= 1

\* TrainCar.has_previous_car_status_succeeded for the car at index i
has_previous_car_status_succeeded(cs, i) ==
  \A j \in 1..(i - 1) : cs[j].checks_conclusion = "success"

\* a mutation of slice_cars: the pulls of the sliced cars wait last
slice_cars_behind(T, new_queue_size) ==
  LET cs == T.cars
      kept == {i \in 1..Len(cs) :
                 new_queue_size - number_of_pulls_in_cars(SubSeq(cs, 1, i)) >= 0}
      k == Cardinality(kept)
  IN [T EXCEPT !.cars = SubSeq(cs, 1, k),
               !.waiting_pulls = @ \o FlattenStill(SubSeq(cs, k + 1, Len(cs)))]

\* ---------------------------------------------------------- _slice_cars
\* cars whose pulls all sit before position new_queue_size are kept, the
\* pulls of the others go back to the front of the waiting pulls
slice_cars(T, new_queue_size) ==
  LET cs == T.cars
      kept == {i \in 1..Len(cs) :
                 new_queue_size - number_of_pulls_in_cars(SubSeq(cs, 1, i)) >= 0}
      k == Cardinality(kept)
  IN [T EXCEPT !.cars = SubSeq(cs, 1, k),
               !.waiting_pulls = FlattenStill(SubSeq(cs, k + 1, Len(cs))) \o @]

\* ------------------------------------------------------------ persistence
\* TrainCar.serialized: the document of a car. An EmbarkedPull is a named
\* tuple and is written as the JSON array of its three members.
serialized_pull(ep) == <<ep.user_pull_request_number, ep.config, ep.queued_at>>

RECURSIVE serialized(_)
serialized(car) ==
  [initial_embarked_pulls |->
     [i \in 1..Len(car.initial_embarked_pulls) |->
        serialized_pull(car.initial_embarked_pulls[i])],
   still_queued_embarked_pulls |->
     [i \in 1..Len(car.still_queued_embarked_pulls) |->
        serialized_pull(car.still_queued_embarked_pulls[i])],
   parent_pull_request_numbers |-> car.parent_pull_request_numbers,
   initial_current_base_sha |-> car.initial_current_base_sha,
   creation_state |-> car.creation_state,
   checks_conclusion |-> car.checks_conclusion,
   queue_pull_request_number |-> car.queue_pull_request_number,
   failure_history |->
     [i \in 1..Len(car.failure_history) |-> serialized(car.failure_history[i])],
   head_branch |-> car.head_branch,
   has_timed_out |-> car.has_timed_out]

\* EmbarkedPull(*ep)
deserialize_pull(t) == EmbarkedPull(t[1], t[2], t[3])

\* TrainCar.deserialize, new layout (the only layout Train.save writes)
RECURSIVE deserialize(_)
deserialize(data) ==
  LET car ==
        [initial_embarked_pulls |->
           [i \in 1..Len(data.initial_embarked_pulls) |->
              deserialize_pull(data.initial_embarked_pulls[i])],
         still_queued_embarked_pulls |->
           [i \in 1..Len(data.still_queued_embarked_pulls) |->
              deserialize_pull(data.still_queued_embarked_pulls[i])],
         parent_pull_request_numbers |-> data.parent_pull_request_numbers,
         initial_current_base_sha |-> data.initial_current_base_sha,
         creation_state |-> data.creation_state,
         checks_conclusion |-> data.checks_conclusion,
         queue_pull_request_number |-> data.queue_pull_request_number,
         failure_history |->
           [i \in 1..Len(data.failure_history) |->
              deserialize(data.failure_history[i])],
         head_branch |-> data.head_branch,
         has_timed_out |-> data.has_timed_out]
  IN car

\* the hash field of the train in the store: <<>> when the field is absent,
\* else the one-element sequence holding the document
NoDocument == <<>>

\* Train.save
save(T) ==
  IF T.waiting_pulls # <<>> \/ T.cars # <<>>
  THEN << [waiting_pulls |->
             [i \in 1..Len(T.waiting_pulls) |-> serialized_pull(T.waiting_pulls[i])],
           current_base_sha |-> T.current_base_sha,
           cars |-> [i \in 1..Len(T.cars) |-> serialized(T.cars[i])]] >>
  ELSE NoDocument

\* a mutation of load: current_base_sha is not read back
load_without_base_sha(train_raw) ==
  IF train_raw # NoDocument
  THEN Train([i \in 1..Len(train_raw[1].cars) |-> deserialize(train_raw[1].cars[i])],
             [i \in 1..Len(train_raw[1].waiting_pulls) |->
                deserialize_pull(train_raw[1].waiting_pulls[i])],
             NoSha)
  ELSE Train(<<>>, <<>>, NoSha)

\* Train.load into a fresh Train
load(train_raw) ==
  IF train_raw # NoDocument
  THEN Train([i \in 1..Len(train_raw[1].cars) |-> deserialize(train_raw[1].cars[i])],
             [i \in 1..Len(train_raw[1].waiting_pulls) |->
                deserialize_pull(train_raw[1].waiting_pulls[i])],
             train_raw[1].current_base_sha)
  ELSE Train(<<>>, <<>>, NoSha)

\* ------------------------------------------------- base branch tracking
\* ctxt.pull of pull request n as the host reports it
pull_of(n, merged_pulls) ==
  [number |-> n, merged |-> n \in merged_pulls,
   merge_commit_sha |-> IF n \in merged_pulls THEN merge_commit_sha(n) ELSE NoSha]

\* Train.is_synced_with_the_base_branch
is_synced_with_the_base_branch(T, sha, merged_pulls) ==
  IF T.cars = <<>> THEN TRUE
  ELSE IF sha = T.current_base_sha THEN TRUE
  ELSE LET top == pull_of(T.cars[1].still_queued_embarked_pulls[1]
                            .user_pull_request_number, merged_pulls)
       IN top.merged /\ top.merge_commit_sha = sha

\* QueueBase.get_position: 0-based index of the pull in get_pulls(), -1 for None
get_position(T, n) ==
  LET pulls == get_pulls(T)
      here == {p \in 1..Len(pulls) : pulls[p] = n}
  IN IF here = {} THEN -1 ELSE SeqMin(here) - 1

\* ------------------------------------------------------------ remove_pull
\* a mutation of remove_pull: the train is sliced even when its head was
\* merged
remove_pull_always_slices(T, pull, host_sha, merged_pulls) ==
  LET position == get_position(T, pull.number)
  IN IF position = -1 THEN [train |-> T, saved |-> FALSE]
     ELSE LET S == slice_cars(T, position)
          IN [train |-> [S EXCEPT !.waiting_pulls =
                   RemoveAt(@, position - number_of_pulls_in_cars(S.cars) + 1),
                            !.current_base_sha =
                   IF pull.merged /\ position = 0
                   THEN pull.merge_commit_sha ELSE @],
              saved |-> TRUE]

\* result: the train and whether save() was called
remove_pull(T, pull, host_sha, merged_pulls) ==
  IF /\ pull.merged
     /\ T.cars # <<>>
     /\ T.cars[1].still_queued_embarked_pulls # <<>>
     /\ pull.number = T.cars[1].still_queued_embarked_pulls[1].user_pull_request_number
     /\ is_synced_with_the_base_branch(T, host_sha, merged_pulls)
  THEN \* head of the train was merged: the other running cars are kept
       LET popped == [T.cars EXCEPT ![1].still_queued_embarked_pulls = Tail(@)]
           cs == IF popped[1].still_queued_embarked_pulls = <<>>
                 THEN Tail(popped) ELSE popped
       IN [train |-> Train(cs, T.waiting_pulls, pull.merge_commit_sha),
           saved |-> TRUE]
  ELSE LET position == get_position(T, pull.number)
       IN IF position = -1 THEN [train |-> T, saved |-> FALSE]
          ELSE LET S == slice_cars(T, position)
               IN [train |-> [S EXCEPT !.waiting_pulls =
                        RemoveAt(@, position - number_of_pulls_in_cars(S.cars) + 1)],
                   saved |-> TRUE]

\* --------------------------------------------------------------- add_pull
\* a mutation of car_can_be_interrupted: the conclusion of the car is not
\* looked at
car_can_be_interrupted_checked(T, item, config) ==
  \/ item.car = 0
  \/ config.queue_config.allow_checks_interruption

\* car_can_be_interrupted of add_pull, for the position of item
car_can_be_interrupted(T, item, config) ==
  \/ item.car = 0
  \/ /\ T.cars[item.car].checks_conclusion = "pending"
     /\ config.queue_config.allow_checks_interruption

\* the positions (1-based) add_pull may take: interruptible and held by a
\* pull of strictly lower effective priority
lower_positions(T, config) ==
  LET items == iter_embarked_pulls(T)
  IN {p \in 1..Len(items) :
        /\ config.effective_priority > items[p].embarked_pull.config.effective_priority
        /\ car_can_be_interrupted(T, items[p], config)}

\* a mutation of insert_pull: the pull is always appended
insert_pull_last(T, n, config, t) ==
  [T EXCEPT !.waiting_pulls = Append(@, EmbarkedPull(n, config, t))]

\* the tail of add_pull, for a pull that is not in the train
insert_pull(T, n, config, t) ==
  LET lower == lower_positions(T, config)
      new_embarked_pull == EmbarkedPull(n, config, t)
  IN IF lower = {}
     THEN [T EXCEPT !.waiting_pulls = Append(@, new_embarked_pull)]
     ELSE LET best_position == SeqMin(lower) - 1
              S == slice_cars(T, best_position)
          IN [S EXCEPT !.waiting_pulls =
                InsertAt(@, best_position - number_of_pulls_in_cars(S.cars) + 1,
                         new_embarked_pull)]

\* a mutation of need_to_be_readded: the position is not looked at
need_to_be_readded_anywhere(T, n, config) ==
  LET items == iter_embarked_pulls(T)
      here == {p \in 1..Len(items) :
                 items[p].embarked_pull.user_pull_request_number = n}
  IN /\ here # {}
     /\ LET item == items[SeqMin(here)]
        IN \/ config.effective_priority
                # item.embarked_pull.config.effective_priority
           \/ config.name # item.embarked_pull.config.name

\* the pull is in the train with another priority or queue name, at a
\* position that can be interrupted
need_to_be_readded(T, n, config) ==
  LET items == iter_embarked_pulls(T)
      here == {p \in 1..Len(items) :
                 items[p].embarked_pull.user_pull_request_number = n}
  IN /\ here # {}
     /\ LET item == items[SeqMin(here)]
        IN /\ \/ config.effective_priority
                   # item.embarked_pull.config.effective_priority
              \/ config.name # item.embarked_pull.config.name
           /\ car_can_be_interrupted(T, item, config)

\* a mutation of add_pull: a misplaced pull is added again without being
\* removed first
add_pull_without_remove(T, pull, config, t, host_sha, merged_pulls) ==
  IF get_position(T, pull.number) # -1 /\ ~need_to_be_readded(T, pull.number, config)
  THEN [train |-> T, saved |-> FALSE]
  ELSE [train |-> insert_pull(T, pull.number, config, t), saved |-> TRUE]

RECURSIVE add_pull(_, _, _, _, _, _)
add_pull(T, pull, config, t, host_sha, merged_pulls) ==
  IF get_position(T, pull.number) # -1
  THEN IF need_to_be_readded(T, pull.number, config)
       THEN LET removed == remove_pull(T, pull, host_sha, merged_pulls).train
            IN [train |-> add_pull(removed, pull, config, t,
                                   host_sha, merged_pulls).train,
                saved |-> TRUE]
       ELSE \* already in queue at right place
            [train |-> T, saved |-> FALSE]
  ELSE [train |-> insert_pull(T, pull.number, config, t), saved |-> TRUE]

\* ---------------------------------------------------- starting a car
\* TrainCar.update_state(PENDING, ...) at the end of a successful start
started(car, state, number) ==
  [car EXCEPT !.creation_state = state,
              !.queue_pull_request_number = number,
              !.checks_conclusion = "pending",
              !.has_timed_out = FALSE]

\* a mutation of can_be_updated: the parents of the car are not looked at
can_be_updated_with_parents(T, i) ==
  /\ T.cars[1] = T.cars[i]
  /\ Len(T.cars[i].still_queued_embarked_pulls) = 1

\* can_be_updated of Train._start_checking_car
can_be_updated(T, i) ==
  /\ T.cars[1] = T.cars[i]
  /\ Len(T.cars[i].still_queued_embarked_pulls) = 1
  /\ Len(T.cars[i].parent_pull_request_numbers) = 0

\* Train._start_checking_car for the car at index i. outcome is what the
\* host answers: "postponed" is the 403 / 'Base does not exist' answer of
\* the merges endpoint, which only create_pull calls; "failed" is a merge
\* conflict or another client error (create_pull) or a BranchUpdateFailure
\* (update_user_pull). raised names the exception that leaves the method.
start_checking_car(T, rule, i, outcome) ==
  LET car == T.cars[i]
      must_be_updated ==
        IF can_be_updated(T, i) THEN rule.allow_inplace_checks ELSE FALSE
      created == [car EXCEPT !.head_branch = get_pulls_branch_ref(car),
                             !.creation_state = "created"]
      draft_number == DraftNumberOffset
                      + car.still_queued_embarked_pulls[
                          Len(car.still_queued_embarked_pulls)].user_pull_request_number
  IN IF must_be_updated
     THEN IF outcome = "failed"
          THEN [train |-> [T EXCEPT !.cars[i].creation_state = "failed"],
                raised |-> "failed"]
          ELSE [train |-> [T EXCEPT !.cars[i] = started(car, "updated", NoPull)],
                raised |-> "none"]
     ELSE CASE outcome = "failed" ->
                 [train |-> [T EXCEPT !.cars[i] =
                                [created EXCEPT !.creation_state = "failed"]],
                  raised |-> "failed"]
            [] outcome = "postponed" ->
                 \* del self._cars[-1]; self._waiting_pulls.extend(...)
                 [train |-> [T EXCEPT
                     !.cars = DropLast([@ EXCEPT ![i] = created]),
                     !.waiting_pulls = @ \o car.still_queued_embarked_pulls],
                  raised |-> "postponed"]
            [] OTHER ->
                 [train |-> [T EXCEPT !.cars[i] =
                                started(created, "created", draft_number)],
                  raised |-> "none"]

\* ---------------------------------------------- _remove_duplicate_pulls
\* the scan of one car: stops at the first known number and slices there
RECURSIVE dedup_car(_, _, _, _, _)
dedup_car(T, pulls, j, known_prs, i) ==
  IF j > Len(pulls) THEN [train |-> T, known_prs |-> known_prs, i |-> i]
  ELSE IF pulls[j].user_pull_request_number \in known_prs
       THEN [train |-> slice_cars(T, i), known_prs |-> known_prs, i |-> i]
       ELSE dedup_car(T, pulls, j + 1,
                      known_prs \cup {pulls[j].user_pull_request_number}, i + 1)

\* the outer loop runs over the list of cars it started with
RECURSIVE dedup_cars(_, _, _, _, _)
dedup_cars(T, old_cars, c, known_prs, i) ==
  IF c > Len(old_cars) THEN [train |-> T, known_prs |-> known_prs]
  ELSE LET r == dedup_car(T, old_cars[c].still_queued_embarked_pulls, 1,
                          known_prs, i)
       IN dedup_cars(r.train, old_cars, c + 1, r.known_prs, r.i)

RECURSIVE wp_to_keep(_, _)
wp_to_keep(wp, known_prs) ==
  IF wp = <<>> THEN <<>>
  ELSE IF Head(wp).user_pull_request_number \in known_prs
       THEN wp_to_keep(Tail(wp), known_prs)
       ELSE <<Head(wp)>>
            \o wp_to_keep(Tail(wp),
                          known_prs \cup {Head(wp).user_pull_request_number})

remove_duplicate_pulls(T) ==
  LET r == dedup_cars(T, T.cars, 1, {}, 0)
  IN [r.train EXCEPT !.waiting_pulls = wp_to_keep(@, r.known_prs)]

\* a synchronisation that leaves the cars of a deleted queue in place
sync_configuration_change_kept(T, queue_rules) == T

\* ------------------------------------------- _sync_configuration_change
sync_configuration_change(T, queue_rules) ==
  LET items == iter_embarked_pulls(T)
      gone == {p \in 1..Len(items) :
                 items[p].embarked_pull.config.name \notin DOMAIN queue_rules}
  IN IF gone = {} THEN T ELSE slice_cars(T, SeqMin(gone) - 1)

\* ------------------------------------------------------ utils.split_list
\* contiguous parts whose sizes differ by at most one, empty parts skipped
RECURSIVE split_sizes(_, _, _)
split_sizes(xs, q, r) ==
  IF xs = <<>> THEN <<>>
  ELSE LET size == IF r > 0 THEN q + 1 ELSE q
       IN <<SubSeq(xs, 1, size)>>
          \o split_sizes(SubSeq(xs, size + 1, Len(xs)), q,
                         IF r > 0 THEN r - 1 ELSE 0)

\* a mutation of split_list: a single part
split_list_whole(xs, parts) == <<xs>>

split_list(xs, parts) == split_sizes(xs, Len(xs) \div parts, Len(xs) % parts)

\* ------------------------------------------------ _split_failed_batches
\* a mutation of residual_car: the failed car keeps all its pulls
residual_car_whole(car) ==
  [car EXCEPT
     !.parent_pull_request_numbers =
        @ \o Numbers(DropLast(car.still_queued_embarked_pulls))]

\* the failed car as it is re-appended behind the cars made of its parts:
\* it keeps its last pull and its result
residual_car(car) ==
  LET pulls == car.still_queued_embarked_pulls
  IN [car EXCEPT
        !.parent_pull_request_numbers = @ \o Numbers(DropLast(pulls)),
        !.still_queued_embarked_pulls = <<pulls[Len(pulls)]>>,
        !.initial_embarked_pulls = <<pulls[Len(pulls)]>>]

\* a mutation of split_parts: every new car is started, whatever
\* speculative_checks is
RECURSIVE split_parts_all_started(_, _, _, _, _, _, _)
split_parts_all_started(T, rule, car, groups, pos, parents, used_outcomes) ==
  IF pos > Len(groups) THEN [train |-> T, used |-> used_outcomes.used]
  ELSE LET new_car == TrainCar(groups[pos],
                               car.parent_pull_request_numbers \o Numbers(parents),
                               car.initial_current_base_sha,
                               car.failure_history \o <<residual_car(car)>>)
           appended == [T EXCEPT !.cars = Append(@, new_car)]
           r == start_checking_car(appended, rule, Len(appended.cars),
                                   used_outcomes.outcomes[used_outcomes.used + 1])
       IN split_parts_all_started(r.train, rule, car, groups, pos + 1,
                                  parents \o groups[pos],
                                  [used_outcomes EXCEPT !.used = @ + 1])

\* the loop over the parts; failure_history holds the failed car itself,
\* which the end of the split turns into residual_car, so this is the value
\* the saved document shows
RECURSIVE split_parts(_, _, _, _, _, _, _)
split_parts(T, rule, car, groups, pos, parents, used_outcomes) ==
  IF pos > Len(groups) THEN [train |-> T, used |-> used_outcomes.used]
  ELSE LET new_car == TrainCar(groups[pos],
                               car.parent_pull_request_numbers \o Numbers(parents),
                               car.initial_current_base_sha,
                               car.failure_history \o <<residual_car(car)>>)
           appended == [T EXCEPT !.cars = Append(@, new_car)]
           start == rule.speculative_checks > 1 \/ pos = 1
           r == start_checking_car(appended, rule, Len(appended.cars),
                                   used_outcomes.outcomes[used_outcomes.used + 1])
       IN split_parts(IF start THEN r.train ELSE appended,
                      rule, car, groups, pos + 1, parents \o groups[pos],
                      [used_outcomes EXCEPT !.used = IF start THEN @ + 1 ELSE @])

\* the index of the car the splitter splits, 0 when there is none
car_to_split(T) ==
  LET failed == {i \in 1..Len(T.cars) :
                   /\ T.cars[i].checks_conclusion = "failure"
                   /\ has_previous_car_status_succeeded(T.cars, i)
                   /\ Len(T.cars[i].initial_embarked_pulls) > 1}
  IN IF failed = {} THEN 0 ELSE SeqMin(failed)

split_car(T, queue_rules, k, outcomes) ==
  LET car == T.cars[k]
      queue_rule == queue_rules[car.still_queued_embarked_pulls[1].config.name]
      current_queue_position == number_of_pulls_in_cars(SubSeq(T.cars, 1, k))
      sliced == slice_cars(T, current_queue_position)
      moved == [sliced EXCEPT !.cars = DropLast(@)]
      parts == IF queue_rule.speculative_checks > 2
               THEN queue_rule.speculative_checks ELSE 2
      r == split_parts(moved, queue_rule, car,
                       split_list(DropLast(car.still_queued_embarked_pulls), parts),
                       1, <<>>, [outcomes |-> outcomes, used |-> 0])
  IN [train |-> [r.train EXCEPT !.cars = Append(@, residual_car(car))],
      used |-> r.used]

\* result: the train, the number of host outcomes consumed, and whether a
\* batch was split
split_failed_batches(T, queue_rules, outcomes) ==
  IF /\ Len(T.cars) = 1
     /\ T.cars[1].checks_conclusion = "failure"
     /\ Len(T.cars[1].initial_embarked_pulls) = 1
  THEN [train |-> T, used |-> 0, split |-> 0]
  ELSE
  LET k == car_to_split(T)
      rule_gone == k # 0 /\ T.cars[k].still_queued_embarked_pulls[1].config.name
                              \notin DOMAIN queue_rules
      s == IF k = 0 THEN [train |-> T, used |-> 0]
           ELSE split_car(T, queue_rules, k, outcomes)
  IN IF rule_gone THEN [train |-> T, used |-> 0, split |-> 0]
     ELSE IF /\ s.train.cars # <<>>
             /\ Len(s.train.cars[1].failure_history) > 0
             /\ s.train.cars[1].creation_state = "pending"
             /\ s.train.cars[1].still_queued_embarked_pulls[1].config.name
                  \in DOMAIN queue_rules
          THEN [train |-> start_checking_car(
                            s.train,
                            queue_rules[s.train.cars[1]
                                          .still_queued_embarked_pulls[1].config.name],
                            1, outcomes[s.used + 1]).train,
                used |-> s.used + 1, split |-> k]
          ELSE [train |-> s.train, used |-> s.used, split |-> k]

\* --------------------------------------------------------- _get_next_batch
\* a mutation of batch_length: the queue of the pulls is not looked at
batch_length_any_queue(pulls, queue_name, batch_size) ==
  IF Len(pulls) < batch_size THEN Len(pulls) ELSE batch_size

RECURSIVE batch_length(_, _, _)
batch_length(pulls, queue_name, batch_size) ==
  IF pulls = <<>> \/ batch_size = 0 THEN 0
  ELSE IF Head(pulls).config.name # queue_name THEN 0
       ELSE 1 + batch_length(Tail(pulls), queue_name, batch_size - 1)

\* a mutation of get_next_batch: the batch is cut at batch_size only
get_next_batch_any_queue(pulls, queue_name, batch_size) ==
  <<SubSeq(pulls, 1, batch_length_any_queue(pulls, queue_name, batch_size)),
    SubSeq(pulls, batch_length_any_queue(pulls, queue_name, batch_size) + 1,
           Len(pulls))>>

get_next_batch(pulls, queue_name, batch_size) ==
  LET i == batch_length(pulls, queue_name, batch_size)
  IN <<SubSeq(pulls, 1, i), SubSeq(pulls, i + 1, Len(pulls))>>

\* ----------------------------------------------------------- _populate_cars
\* no delayed refresh is planned
NoPlan == <<>>

\* delayed_refresh.plan_refresh_at_least_at(repository, pull, at)
Plan(pull, at) == [pull |-> pull, at |-> at]

\* a mutation of missing_cars_of: one car too many
missing_cars_plus_one(T, queue_rule) ==
  queue_rule.speculative_checks + 1 - Len(T.cars)

\* missing_cars of _populate_cars
missing_cars_of(T, queue_rule) == queue_rule.speculative_checks - Len(T.cars)

\* a mutation of parents_of_new_car: the first car is left out
parents_of_new_car_but_first(T) ==
  IF T.cars = <<>> THEN <<>> ELSE Numbers(FlattenStill(Tail(T.cars)))

\* the parents of the car _populate_cars creates: the pulls still queued in
\* the cars of the train, in order
parents_of_new_car(T) == Numbers(FlattenStill(T.cars))

\* a mutation of populate_loop: a batch that is not ready is dropped from
\* waiting_pulls and no refresh is planned
populate_loop_dropping(T, queue_rule, head, missing_cars, outcomes, used, t) ==
  LET batch == get_next_batch(T.waiting_pulls, head.config.name,
                              queue_rule.batch_size)
  IN [train |-> [T EXCEPT !.waiting_pulls = batch[2]], used |-> used,
      planned |-> NoPlan]

\* result: the train, the number of host outcomes consumed so far and the
\* delayed refresh that was planned
RECURSIVE populate_loop(_, _, _, _, _, _, _)
populate_loop(T, queue_rule, head, missing_cars, outcomes, used, t) ==
  IF missing_cars = 0 THEN [train |-> T, used |-> used, planned |-> NoPlan]
  ELSE
  LET batch == get_next_batch(T.waiting_pulls, head.config.name,
                              queue_rule.batch_size)
      pulls_to_check == batch[1]
      enough_to_batch == Len(pulls_to_check) = queue_rule.batch_size
      wait_enough_time_to_batch ==
        t - pulls_to_check[1].queued_at >= queue_rule.batch_max_wait_time
      car == TrainCar(pulls_to_check, parents_of_new_car(T),
                      T.current_base_sha, <<>>)
      appended == [T EXCEPT !.waiting_pulls = batch[2],
                            !.cars = Append(@, car)]
      r == start_checking_car(appended, queue_rule, Len(appended.cars),
                              outcomes[used + 1])
  IN IF pulls_to_check = <<>>
     THEN [train |-> T, used |-> used, planned |-> NoPlan]
     ELSE IF ~enough_to_batch /\ ~wait_enough_time_to_batch
          THEN [train |-> T, used |-> used,
                planned |-> Plan(pulls_to_check[1].user_pull_request_number,
                                 pulls_to_check[1].queued_at
                                   + queue_rule.batch_max_wait_time)]
     ELSE IF r.raised # "none"
          THEN [train |-> r.train, used |-> used + 1, planned |-> NoPlan]
     ELSE populate_loop(r.train, queue_rule, head, missing_cars - 1,
                        outcomes, used + 1, t)

\* a mutation of populate_cars: the state of the last car is not looked at
populate_cars_unguarded(T, queue_rules, outcomes, used, t, host_sha) ==
  IF iter_embarked_pulls(T) = <<>> THEN [train |-> T, used |-> used, planned |-> NoPlan]
  ELSE
  LET head == iter_embarked_pulls(T)[1].embarked_pull
      based == IF T.current_base_sha = NoSha \/ T.cars = <<>>
               THEN [T EXCEPT !.current_base_sha = host_sha] ELSE T
  IN IF head.config.name \notin DOMAIN queue_rules
     THEN [train |-> based, used |-> used, planned |-> NoPlan]
     ELSE
     LET queue_rule == queue_rules[head.config.name]
         speculative_checks == queue_rule.speculative_checks
         missing_cars == missing_cars_of(based, queue_rule)
     IN IF missing_cars < 0
        THEN [train |-> slice_cars(based,
                number_of_pulls_in_cars(SubSeq(based.cars, 1, speculative_checks))),
              used |-> used, planned |-> NoPlan]
        ELSE IF missing_cars > 0 /\ based.waiting_pulls # <<>>
        THEN populate_loop(based, queue_rule, head, missing_cars,
                           outcomes, used, t)
        ELSE [train |-> based, used |-> used, planned |-> NoPlan]

populate_cars(T, queue_rules, outcomes, used, t, host_sha) ==
  IF /\ T.cars # <<>>
     /\ \/ T.cars[Len(T.cars)].creation_state = "failed"
        \/ T.cars[Len(T.cars)].checks_conclusion = "failure"
  THEN [train |-> T, used |-> used, planned |-> NoPlan]
  ELSE IF iter_embarked_pulls(T) = <<>> THEN [train |-> T, used |-> used, planned |-> NoPlan]
  ELSE
  LET head == iter_embarked_pulls(T)[1].embarked_pull
      based == IF T.current_base_sha = NoSha \/ T.cars = <<>>
               THEN [T EXCEPT !.current_base_sha = host_sha] ELSE T
  IN IF head.config.name \notin DOMAIN queue_rules
     THEN [train |-> based, used |-> used, planned |-> NoPlan]
     ELSE
     LET queue_rule == queue_rules[head.config.name]
         speculative_checks == queue_rule.speculative_checks
         missing_cars == missing_cars_of(based, queue_rule)
     IN IF missing_cars < 0
        THEN [train |-> slice_cars(based,
                number_of_pulls_in_cars(SubSeq(based.cars, 1, speculative_checks))),
              used |-> used, planned |-> NoPlan]
        ELSE IF missing_cars > 0 /\ based.waiting_pulls # <<>>
        THEN populate_loop(based, queue_rule, head, missing_cars,
                           outcomes, used, t)
        ELSE [train |-> based, used |-> used, planned |-> NoPlan]

\* ------------------------------------------------------------------ refresh
\* result: the train, the index of the car that was split (0 for none), the
\* number of host outcomes consumed and the delayed refresh that was planned
\* the result of refresh from those of _split_failed_batches (s) and of
\* _populate_cars (p)
refreshed(s, p) ==
  [train |-> p.train, split |-> s.split, used |-> p.used,
   planned |-> p.planned]

\* _populate_cars on the train _split_failed_batches leaves
populate_after(s, queue_rules, outcomes, t, host_sha) ==
  refreshed(s, populate_cars(s.train, queue_rules, outcomes, s.used, t,
                             host_sha))

refresh(T, queue_rules, outcomes, t, host_sha) ==
  populate_after(
    split_failed_batches(
      sync_configuration_change(remove_duplicate_pulls(T), queue_rules),
      queue_rules, outcomes),
    queue_rules, outcomes, t, host_sha)

\* -------------------------------------------------------------------- reset
\* a mutation of reset: the pulls of the cars are put behind the waiting ones
reset_behind(T) ==
  [T EXCEPT !.cars = <<>>, !.waiting_pulls = @ \o FlattenStill(T.cars)]

reset(T) == slice_cars(T, 0)

\* ============================================================== the system
VARIABLES
  cars,              \* Train._cars
  waiting_pulls,     \* Train._waiting_pulls
  current_base_sha,  \* Train._current_base_sha
  store,             \* the hash field of the train in the store
  now,               \* date.utcnow()
  base_sha,          \* head of the target branch on the host
  merged_pulls,      \* pull requests the host has merged
  last,              \* the last Train method called and the path it took
  other_store,       \* the hash field of the train of the other branch
  other_base_sha,    \* head of the other branch on the host
  delayed_refresh,   \* the last delayed refresh that was planned
  host,              \* the synthetic refs of the host and the last calls made
  http,              \* the request AsyncClient.request is carrying out
  tasks              \* the operations in progress and the trains they loaded

vars == <<cars, waiting_pulls, current_base_sha, store, now, base_sha,
          merged_pulls, last, other_store, other_base_sha, delayed_refresh,
          host, http, tasks>>

others == <<other_store, other_base_sha>>

train == Train(cars, waiting_pulls, current_base_sha)

\* the record the method logs: its name and the branch it took
Called(op, path) == [op |-> op, path |-> path]

\* log is the set of methods whose log record the specification keeps: none,
\* or the last record when it is one of theirs
Log(log, op, path) ==
  last' = IF log = {} THEN last
          ELSE IF op \in log THEN Called(op, path)
          ELSE Called("other", "none")

SetTrain(T, saved) ==
  /\ cars' = T.cars
  /\ waiting_pulls' = T.waiting_pulls
  /\ current_base_sha' = T.current_base_sha
  /\ store' = IF saved THEN save(T) ELSE store

\* Train.force_remove_pull on the stored train of another branch:
\* iter_trains loads it, remove_pull saves it when it has changed
force_remove_pull(train_raw, pull, host_sha, merged) ==
  LET r == remove_pull(load(train_raw), pull, host_sha, merged)
  IN IF r.saved THEN save(r.train) ELSE train_raw

Init ==
  /\ cars = <<>>
  /\ waiting_pulls = <<>>
  /\ current_base_sha = NoSha
  /\ store = NoDocument
  /\ now = 0
  /\ base_sha = InitialSha
  /\ merged_pulls = {}
  /\ last = Called("init", "none")
  /\ other_store = NoDocument
  /\ other_base_sha = InitialSha
  /\ delayed_refresh = NoPlan
  /\ host = NoHost
  /\ http = NoRequest
  /\ tasks = NoTasks

add_path(T, n, config, r) ==
  IF get_position(T, n) = -1
  THEN IF lower_positions(T, config) = {} THEN "append"
       ELSE IF Len(r.train.cars) < Len(T.cars) THEN "insert sliced"
       ELSE "insert"
  ELSE IF need_to_be_readded(T, n, config) THEN "readd"
       ELSE LET held == (FlattenStill(T.cars) \o T.waiting_pulls)[get_position(T, n) + 1]
            IN IF /\ held.config.effective_priority = config.effective_priority
                  /\ held.config.name = config.name
               THEN "noop same" ELSE "noop kept"

\* Train.add_pull for an open pull request
AddPull(n, config, log) ==
  /\ n \notin merged_pulls
  /\ get_position(train, n) = -1 =>
       Len(get_pulls(train)) + Len(Without(get_pulls(load(other_store)), n))
         < MaxQueued
  /\ other_store' = force_remove_pull(other_store, pull_of(n, merged_pulls),
                                      other_base_sha, merged_pulls)
  /\ LET r == add_pull(train, pull_of(n, merged_pulls), config, now,
                       base_sha, merged_pulls)
     IN /\ SetTrain(r.train, r.saved)
        /\ Log(log, "add_pull", add_path(train, n, config, r))
  /\ UNCHANGED <<tasks, host, http, now, base_sha, merged_pulls, other_base_sha, delayed_refresh>>

remove_path(T, r) ==
  IF ~r.saved THEN "absent"
  ELSE IF r.train.waiting_pulls = T.waiting_pulls THEN "fast" ELSE "slow"

\* Train.remove_pull of a pull request that is dequeued without being merged
\* (or that is not in the train)
RemovePull(n, log) ==
  /\ LET r == remove_pull(train, pull_of(n, merged_pulls), base_sha, merged_pulls)
     IN /\ SetTrain(r.train, r.saved)
        /\ Log(log, "remove_pull", remove_path(train, r))
  /\ UNCHANGED <<tasks, host, http, now, base_sha, merged_pulls, others, delayed_refresh>>

\* the host merges queued pull request n into the target branch and the
\* engine calls Train.remove_pull for it; moved tells that the branch head
\* has moved again before remove_pull reads it
MergedPull(n, moved, log) ==
  /\ n \notin merged_pulls
  /\ get_position(train, n) # -1
  /\ merged_pulls' = merged_pulls \cup {n}
  /\ base_sha' = IF moved THEN ExternalSha ELSE merge_commit_sha(n)
  /\ LET r == remove_pull(train, pull_of(n, merged_pulls'), base_sha',
                          merged_pulls')
     IN /\ SetTrain(r.train, r.saved)
        /\ Log(log, "remove_merged_pull", remove_path(train, r))
  /\ UNCHANGED <<tasks, host, http, now, others, delayed_refresh>>

refresh_path(T, r, outcomes) ==
  IF r.split # 0 THEN "split"
  ELSE IF \E j \in 1..r.used : outcomes[j] = "postponed" THEN "postponed"
  ELSE IF Len(r.train.cars) > Len(T.cars) THEN "populated"
  ELSE "none"

\* Train.refresh; outcomes are the answers of the host to the car starts of
\* this refresh, in order, drawn from offered (the answers that are not
\* consumed are "ok", and so are all of them when no car is started)
\* the train takes the result r of Train.refresh
Refreshed(r, outcomes, log) ==
  /\ \A j \in 1..MaxStarts : j > r.used => outcomes[j] = "ok"
  /\ SetTrain(r.train, TRUE)
  /\ Log(log, "refresh", refresh_path(train, r, outcomes))
  /\ delayed_refresh' = IF r.planned = NoPlan THEN delayed_refresh
                        ELSE r.planned
  /\ UNCHANGED <<tasks, host, http, now, base_sha, merged_pulls, others>>

Refresh(offered, log) ==
  \E outcomes \in (IF refresh(train, QueueRules, AllOk, now, base_sha).used = 0
                   THEN {AllOk} ELSE offered) :
    Refreshed(refresh(train, QueueRules, outcomes, now, base_sha), outcomes, log)

\* Train.reset, which the engine calls when it finds an unexpected change of
\* a car or of the base branch
Reset(log) ==
  /\ cars # <<>>
  /\ SetTrain(reset(train), TRUE)
  /\ Log(log, "reset", "none")
  /\ UNCHANGED <<tasks, host, http, now, base_sha, merged_pulls, others, delayed_refresh>>

\* the engine evaluates the queue rule on the checked pull request of car i:
\* TrainCar.update_state, then Train.save
UpdateState(i, conclusion, timed_out, log) ==
  /\ i \in 1..Len(cars)
  /\ cars[i].checks_conclusion = "pending"
  /\ \/ cars[i].creation_state = "updated"
     \/ /\ cars[i].creation_state = "created"
        /\ cars[i].queue_pull_request_number # NoPull
  /\ timed_out =>
       /\ conclusion = "failure"
       /\ QueueRules[cars[i].initial_embarked_pulls[1].config.name].checks_timeout
  /\ SetTrain([train EXCEPT !.cars[i].checks_conclusion = conclusion,
                            !.cars[i].has_timed_out = timed_out], TRUE)
  /\ Log(log, "update_state", conclusion)
  /\ UNCHANGED <<tasks, host, http, now, base_sha, merged_pulls, others, delayed_refresh>>

\* every operation, with every answer of the host
Next ==
  \/ \E n \in PullNumbers, config \in Configs : AddPull(n, config, {})
  \/ \E n \in PullNumbers : RemovePull(n, {})
  \/ \E n \in PullNumbers, moved \in BOOLEAN : MergedPull(n, moved, {})
  \/ Refresh(OutcomeSeqs, {})
  \/ Reset({})
  \/ \E i \in 1..MaxQueued, conclusion \in {"success", "failure"},
        timed_out \in BOOLEAN : UpdateState(i, conclusion, timed_out, {})

Spec == Init /\ [][Next]_vars

\* every operation, the log record of add_pull kept, with a host that
\* starts every car and a target branch that only the train's merges move
NextAddPull ==
  \/ \E n \in PullNumbers, config \in Configs : AddPull(n, config, {"add_pull"})
  \/ \E n \in PullNumbers : RemovePull(n, {"add_pull"})
  \/ \E n \in PullNumbers : MergedPull(n, FALSE, {"add_pull"})
  \/ Refresh({AllOk}, {"add_pull"})
  \/ Reset({"add_pull"})
  \/ \E i \in 1..MaxQueued, conclusion \in {"success", "failure"} :
        UpdateState(i, conclusion, FALSE, {"add_pull"})

SpecAddPull == Init /\ [][NextAddPull]_vars

\* the engine turns to the train of the other branch of the repository:
\* Train.from_context loads it from the store, where the train it leaves
\* stays as it was saved
SwitchBranch(log) ==
  /\ store # NoDocument \/ other_store # NoDocument
  /\ cars' = load(other_store).cars
  /\ waiting_pulls' = load(other_store).waiting_pulls
  /\ current_base_sha' = load(other_store).current_base_sha
  /\ store' = other_store
  /\ other_store' = store
  /\ base_sha' = other_base_sha
  /\ other_base_sha' = base_sha
  /\ Log(log, "from_context", "none")
  /\ UNCHANGED <<tasks, host, http, now, merged_pulls, delayed_refresh>>

\* every operation on the trains of two branches of one repository, whose
\* pulls are all queued in the queue "one"
NextTrains ==
  \/ \E n \in PullNumbers : AddPull(n, get_config("one", MaxPriority), {})
  \/ \E n \in PullNumbers : RemovePull(n, {})
  \/ \E n \in PullNumbers : MergedPull(n, FALSE, {})
  \/ Refresh(OutcomeSeqs, {})
  \/ Reset({})
  \/ \E i \in 1..MaxQueued, conclusion \in {"success", "failure"} :
        UpdateState(i, conclusion, FALSE, {})
  \/ SwitchBranch({})

SpecTrains == Init /\ [][NextTrains]_vars

\* time passes: date.utcnow() gives a later date
Tick(log) ==
  /\ now < MaxTime
  /\ now' = now + 1
  /\ Log(log, "utcnow", "none")
  /\ UNCHANGED <<tasks, host, http, cars, waiting_pulls, current_base_sha, store,
                 base_sha, merged_pulls, others, delayed_refresh>>

\* every operation on a train whose pulls are all queued in the queue
\* "wait", with a clock, a host that starts every car, checks that pass
\* and a target branch that only the train's merges move
NextClock ==
  \/ \E n \in PullNumbers, config \in WaitConfigs : AddPull(n, config, {})
  \/ \E n \in PullNumbers : RemovePull(n, {})
  \/ \E n \in PullNumbers : MergedPull(n, FALSE, {})
  \/ Refresh({AllOk}, {})
  \/ Reset({})
  \/ \E i \in 1..MaxQueued : UpdateState(i, "success", FALSE, {})
  \/ Tick({})

SpecClock == Init /\ [][NextClock]_vars

\* Train.add_pull for the pull requests 1..MaxBatched, queued in number
\* order in the queue "two"
AddPullInOrder(n, log) ==
  /\ n \notin merged_pulls
  /\ get_position(train, n) = -1
  /\ \A m \in 1..(n - 1) : m \in merged_pulls \/ get_position(train, m) # -1
  /\ LET r == add_pull(train, pull_of(n, merged_pulls),
                       get_config("two", MaxPriority), now, base_sha,
                       merged_pulls)
     IN /\ SetTrain(r.train, r.saved)
        /\ Log(log, "add_pull", "none")
  /\ UNCHANGED <<tasks, host, http, now, base_sha, merged_pulls, others, delayed_refresh>>

\* a train of the queue "two" that takes up to MaxBatched pull requests in
\* number order, with every answer of the host and every conclusion of the
\* checks
NextBatches ==
  \/ \E n \in 1..MaxBatched : AddPullInOrder(n, {})
  \/ \E n \in 1..MaxBatched : MergedPull(n, FALSE, {})
  \/ Refresh(OutcomeSeqs, {})
  \/ \E i \in 1..MaxBatched, conclusion \in {"success", "failure"} :
        UpdateState(i, conclusion, FALSE, {})

SpecBatches == Init /\ [][NextBatches]_vars

\* Train.add_pull for the pull requests 1..MaxSplit, queued in number order
\* in the queue "four"
AddPullToFour(n, log) ==
  /\ n \notin merged_pulls
  /\ get_position(train, n) = -1
  /\ \A m \in 1..(n - 1) : m \in merged_pulls \/ get_position(train, m) # -1
  /\ LET r == add_pull(train, pull_of(n, merged_pulls),
                       get_config("four", MaxPriority), now, base_sha,
                       merged_pulls)
     IN /\ SetTrain(r.train, r.saved)
        /\ Log(log, "add_pull", "none")
  /\ UNCHANGED <<tasks, host, http, now, base_sha, merged_pulls, others, delayed_refresh>>

\* a train of the queue "four" that takes up to MaxSplit pull requests in
\* number order, with a host that starts every car and every conclusion of
\* the checks
NextSplit ==
  \/ \E n \in 1..MaxSplit : AddPullToFour(n, {})
  \/ \E n \in 1..MaxSplit : MergedPull(n, FALSE, {})
  \/ Refresh({AllOk}, {})
  \/ \E i \in 1..MaxSplit, conclusion \in {"success", "failure"} :
        UpdateState(i, conclusion, FALSE, {})

SpecSplit == Init /\ [][NextSplit]_vars

\* the configurations of the pull requests queued in the queue "solo", which
\* checks one car at a time, or in the queue "two", which checks two
SoloConfigs == {get_config("solo", MaxPriority), get_config("two", MaxPriority)}

\* every operation but reset on a train whose pulls are queued in the queue
\* "solo" or in the queue "two", with every answer of the host
NextSolo ==
  \/ \E n \in PullNumbers, config \in SoloConfigs : AddPull(n, config, {})
  \/ \E n \in PullNumbers : RemovePull(n, {})
  \/ \E n \in PullNumbers : MergedPull(n, FALSE, {})
  \/ Refresh(OutcomeSeqs, {})
  \/ \E i \in 1..MaxQueued, conclusion \in {"success", "failure"} :
        UpdateState(i, conclusion, FALSE, {})

SpecSolo == Init /\ [][NextSolo]_vars

\* ------------------------------------------------------------ properties
NoDuplicates(xs) == \A i, j \in 1..Len(xs) : xs[i] = xs[j] => i = j

IsSubsequence(xs, ys) ==
  \E f \in [1..Len(xs) -> 1..Len(ys)] :
    /\ \A i \in 1..Len(xs) : ys[f[i]] = xs[i]
    /\ \A i, j \in 1..Len(xs) : i < j => f[i] < f[j]

\* C1: in every reachable state no pull request number occurs twice across
\* the still queued pulls of the cars and the waiting pulls
C1_UniquePulls == NoDuplicates(get_pulls(train))

still_ahead(k) == Numbers(FlattenStill(SubSeq(cars, 1, k - 1)))

\* C2 as stated: in a train where no split has recorded ancestors, the
\* parents of every car are exactly the still queued pulls of the cars
\* ahead of it, in order
C2_ParentsExact ==
  (\A k \in 1..Len(cars) : cars[k].failure_history = <<>>) =>
    \A k \in 1..Len(cars) : cars[k].parent_pull_request_numbers = still_ahead(k)

\* C2, amended: the still queued pulls of the cars ahead of a car are, in
\* order, a subsequence of its parents (the parents keep the pulls that were
\* merged and removed from the cars ahead)
C2_ParentsCoverAhead ==
  \A k \in 1..Len(cars) :
    IsSubsequence(still_ahead(k), cars[k].parent_pull_request_numbers)

\* a car behind others keeps as parent a pull that was merged and removed
C2_Witness ==
  \E k \in 2..Len(cars) :
    /\ still_ahead(k) # <<>>
    /\ cars[k].parent_pull_request_numbers # still_ahead(k)
    /\ \E j \in 1..Len(cars[k].parent_pull_request_numbers) :
         cars[k].parent_pull_request_numbers[j] \in merged_pulls

rule_of(car) == QueueRules[car.initial_embarked_pulls[1].config.name]

StartedNow(k) ==
  /\ cars'[k].creation_state # "pending"
  /\ cars'[k].checks_conclusion = "pending"
  /\ ~\E j \in 1..Len(cars) :
        /\ cars[j].initial_embarked_pulls = cars'[k].initial_embarked_pulls
        /\ cars[j].failure_history = cars'[k].failure_history
        /\ cars[j].creation_state = cars'[k].creation_state

\* update_user_pull leaves head_branch unset, create_pull sets it first
checked_inplace(car) == car.creation_state # "pending" /\ car.head_branch = NoBranch

\* C4: a car in creation_state updated is the first car, holds one still
\* queued pull and has no parents; and a car that a step starts is checked
\* in place iff it is the first car, holds one pull, has no parents and its
\* queue rule allows in-place checks
C4_InPlace ==
  [][\A k \in 1..Len(cars') :
       /\ cars'[k].creation_state = "updated" =>
            /\ k = 1
            /\ Len(cars'[k].still_queued_embarked_pulls) = 1
            /\ cars'[k].parent_pull_request_numbers = <<>>
       /\ StartedNow(k) =>
            (checked_inplace(cars'[k]) <=>
               /\ k = 1
               /\ Len(cars'[k].still_queued_embarked_pulls) = 1
               /\ cars'[k].parent_pull_request_numbers = <<>>
               /\ rule_of(cars'[k]).allow_inplace_checks)]_vars

\* the first car is checked in place
C4_Witness ==
  /\ cars # <<>>
  /\ cars[1].creation_state = "updated"
  /\ cars[1].head_branch = NoBranch
  /\ waiting_pulls # <<>>

\* a single pull without parents, first of the train, checked in a draft
\* pull request because its rule does not allow in-place checks
C4_WitnessDraft ==
  /\ cars # <<>>
  /\ cars[1].creation_state = "created"
  /\ Len(cars[1].initial_embarked_pulls) = 1
  /\ cars[1].parent_pull_request_numbers = <<>>
  /\ ~rule_of(cars[1]).allow_inplace_checks

\* the document after refresh is called twice, every car start of both calls
\* getting the same answer from the host, against the one after one call
refresh_twice_same(T, outcome) ==
  LET outcomes == [j \in 1..MaxStarts |-> outcome]
      once == refresh(T, QueueRules, outcomes, now, base_sha).train
      twice == refresh(once, QueueRules, outcomes, now, base_sha).train
  IN save(twice) = save(once)

\* C5: refresh called twice in a row, with nothing changing in between and
\* the same outcome of every car creation in both calls, persists the same
\* document after the second call as after the first
C5_RefreshIdempotent ==
  \A outcome \in Outcomes : refresh_twice_same(train, outcome)

before_split(T) ==
  sync_configuration_change(remove_duplicate_pulls(T), QueueRules)

\* the cars a refresh leaves from the place of the car it has split
cars_of_split(r) == SubSeq(r.train.cars, r.split, Len(r.train.cars))

RECURSIVE FlattenInitial(_)
FlattenInitial(cs) ==
  IF cs = <<>> THEN <<>>
  ELSE Head(cs).initial_embarked_pulls \o FlattenInitial(Tail(cs))

interruptible_positions(T, config) ==
  LET items == iter_embarked_pulls(T)
  IN {p \in 1..Len(items) : car_can_be_interrupted(T, items[p], config)}

interruptible_car(k, config) ==
  cars[k].checks_conclusion = "pending"
    /\ config.queue_config.allow_checks_interruption

\* the pull at the first position of n in T, with its car
held_in(T, n) == iter_embarked_pulls(T)[get_position(T, n) + 1]

\* the pull at the first position of n in the train, with its car
held(n) == iter_embarked_pulls(train)[get_position(train, n) + 1]

\* what Train.add_pull makes of the train for pull request n and config
added(n, config) ==
  add_pull(train, pull_of(n, merged_pulls), config, now, base_sha, merged_pulls)

same_priority_and_queue(n, config) ==
  /\ held(n).embarked_pull.config.effective_priority = config.effective_priority
  /\ held(n).embarked_pull.config.name = config.name

\* C8: add_pull of a pull request that is not in the train, with a priority
\* strictly higher than that of every pull at an interruptible position,
\* makes it the first waiting pull, and every interruptible car is sliced
\* into waiting_pulls behind it, ahead of the pulls that were waiting
C8_HighestPriorityFirst ==
  \A n \in PullNumbers \ merged_pulls, config \in Configs :
    (/\ get_position(train, n) = -1
     /\ \A p \in interruptible_positions(train, config) :
          config.effective_priority
            > iter_embarked_pulls(train)[p].embarked_pull.config.effective_priority)
    => LET after == added(n, config).train
       IN /\ Len(after.cars) <= Len(cars)
          /\ after.cars = SubSeq(cars, 1, Len(after.cars))
          /\ \A k \in 1..Len(cars) :
               interruptible_car(k, config) => k > Len(after.cars)
          /\ after.waiting_pulls =
               <<EmbarkedPull(n, config, now)>>
                 \o FlattenStill(SubSeq(cars, Len(after.cars) + 1, Len(cars)))
                 \o waiting_pulls

\* a pull has been inserted ahead of a car that was sliced and of every
\* waiting pull, behind a car that could not be interrupted
C8_Witness ==
  /\ last = Called("add_pull", "insert sliced")
  /\ cars # <<>>
  /\ Len(waiting_pulls) >= 2
  /\ \A i \in 2..Len(waiting_pulls) :
       waiting_pulls[1].config.effective_priority
         > waiting_pulls[i].config.effective_priority

\* C9 as stated: add_pull keeps every car that cannot be interrupted (its
\* conclusion is not pending, or the incoming config does not allow
\* interruption) at its index with its still queued pulls
C9_KeepsEveryCar ==
  \A n \in PullNumbers \ merged_pulls, config \in Configs :
    LET after == added(n, config).train
    IN \A k \in 1..Len(cars) :
         ~interruptible_car(k, config) =>
           /\ k <= Len(after.cars)
           /\ after.cars[k].still_queued_embarked_pulls
                = cars[k].still_queued_embarked_pulls

\* C9, amended: add_pull keeps, unchanged and at its index, every car that
\* cannot be interrupted and has no interruptible car ahead of it; with an
\* incoming config that does not allow interruption that is every car
C9_KeepsLeadingCars ==
  \A n \in PullNumbers \ merged_pulls, config \in Configs :
    LET after == added(n, config).train
    IN \A k \in 1..Len(cars) :
         (\A j \in 1..k : ~interruptible_car(j, config)) =>
           /\ k <= Len(after.cars)
           /\ after.cars[k] = cars[k]

\* a car that had passed its checks has stayed ahead while the car behind
\* it was sliced for the incoming pull
C9_Witness ==
  /\ last = Called("add_pull", "insert sliced")
  /\ Len(cars) = 1
  /\ cars[1].checks_conclusion = "success"
  /\ Len(waiting_pulls) >= 2

\* C10 as stated: add_pull of a pull that is in the train changes nothing
\* when the config has the recorded priority and queue name, when the pull
\* sits in a car whose conclusion is not pending, or when the new config
\* does not allow interruption
C10_NoOpWherever ==
  \A n \in PullNumbers \ merged_pulls, config \in Configs :
    (/\ get_position(train, n) # -1
     /\ \/ same_priority_and_queue(n, config)
        \/ /\ held(n).car # 0
           /\ cars[held(n).car].checks_conclusion # "pending"
        \/ ~config.queue_config.allow_checks_interruption)
    => added(n, config) = [train |-> train, saved |-> FALSE]

\* C10, amended: add_pull of a pull that is in the train changes nothing
\* when the config has the recorded priority and queue name, or when the
\* pull sits in a car and that car's conclusion is not pending or the new
\* config does not allow interruption (a waiting pull can always be moved)
C10_NoOpInCar ==
  \A n \in PullNumbers \ merged_pulls, config \in Configs :
    (/\ get_position(train, n) # -1
     /\ \/ same_priority_and_queue(n, config)
        \/ /\ held(n).car # 0
           /\ \/ cars[held(n).car].checks_conclusion # "pending"
              \/ ~config.queue_config.allow_checks_interruption)
    => added(n, config) = [train |-> train, saved |-> FALSE]

\* add_pull has kept a pull where it is although the config differs
C10_Witness ==
  /\ last = Called("add_pull", "noop kept")
  /\ cars # <<>>
  /\ store = save(train)

\* ------------------------------------------------- add_pull of a held pull
\* n sits in T where add_pull inserts a pull of this config: in
\* waiting_pulls, behind every pull that add_pull could not pass (a pull of
\* at least its priority, or one in a car that cannot be interrupted) and
\* directly ahead of a pull of strictly lower priority, or last
placed_as_inserted(T, n, config) ==
  LET items == iter_embarked_pulls(T)
      q == get_position(T, n) + 1
  IN /\ q >= 1
     /\ items[q].car = 0
     /\ \A p \in 1..(q - 1) :
          ~(/\ config.effective_priority
                 > items[p].embarked_pull.config.effective_priority
            /\ car_can_be_interrupted(T, items[p], config))
     /\ q < Len(items) =>
          config.effective_priority
            > items[q + 1].embarked_pull.config.effective_priority

\* C11: add_pull of a pull that is in the train at an interruptible
\* position with another priority or queue name ends with the pull exactly
\* once in the train, with the new config, where an insertion of that
\* config puts it, the other pulls in the order they had
C11_ReaddedOnce ==
  \A n \in PullNumbers \ merged_pulls, config \in Configs :
    need_to_be_readded(train, n, config) =>
      LET after == added(n, config).train
      IN /\ Len(get_pulls(after)) = Len(Without(get_pulls(after), n)) + 1
         /\ held_in(after, n).embarked_pull.config = config
         /\ placed_as_inserted(after, n, config)
         /\ Without(get_pulls(after), n) = Without(get_pulls(train), n)

\* a pull checked in a pending car is queued again with a higher priority:
\* its car is sliced and it becomes the first waiting pull
C11_Witness ==
  \E n \in PullNumbers \ merged_pulls, config \in Configs :
    /\ need_to_be_readded(train, n, config)
    /\ held(n).car # 0
    /\ Len(get_pulls(train)) >= 3
    /\ get_pulls(train)[1] # n
    /\ LET after == added(n, config).train
       IN /\ Len(after.cars) < Len(cars)
          /\ after.waiting_pulls[1] = EmbarkedPull(n, config, now)
          /\ Len(after.waiting_pulls) >= 2

\* ------------------------------------------------ the trains of a repository
\* the pull numbers the stored train of the other branch holds
other_pulls == get_pulls(load(other_store))

\* C12: a pull request number is held by at most one train of the
\* repository, since add_pull on one branch removes the pull from the train
\* of every other branch
C12_HeldByOneTrain ==
  \A n \in PullNumbers :
    ~(get_position(train, n) # -1 /\ \E p \in 1..Len(other_pulls) : other_pulls[p] = n)

\* ---------------------------------------------------- remove_pull properties
\* what Train.remove_pull makes of the train once the host has merged pull
\* request n, the head of the target branch being sha
removed_merged(n, sha) ==
  remove_pull(train, pull_of(n, merged_pulls \cup {n}), sha,
              merged_pulls \cup {n}).train

\* C13: remove_pull of a merged pull that is the first pull of cars[0],
\* the train being synced with the base branch, removes that pull only
\* (and cars[0] when it held nothing else), sets current_base_sha to the
\* merge commit and leaves the other cars and waiting_pulls as they are
C13_HeadMergedKeepsCars ==
  \A n \in PullNumbers :
  \A sha \in {base_sha, merge_commit_sha(n), ExternalSha} :
    (/\ cars # <<>>
     /\ cars[1].still_queued_embarked_pulls[1].user_pull_request_number = n
     /\ is_synced_with_the_base_branch(train, sha, merged_pulls \cup {n}))
    => LET after == removed_merged(n, sha)
           d == IF Len(cars[1].still_queued_embarked_pulls) = 1 THEN 1 ELSE 0
       IN /\ after.current_base_sha = merge_commit_sha(n)
          /\ after.waiting_pulls = waiting_pulls
          /\ Len(after.cars) = Len(cars) - d
          /\ \A k \in 2..Len(cars) : after.cars[k - d] = cars[k]
          /\ d = 0 =>
               after.cars[1] =
                 [cars[1] EXCEPT !.still_queued_embarked_pulls = Tail(@)]

\* the first pull of a batch has been merged: its car stays with the rest
\* of the batch, and so does the car behind it
C13_Witness ==
  /\ Len(cars) >= 2
  /\ Len(cars[1].initial_embarked_pulls) = 2
  /\ Len(cars[1].still_queued_embarked_pulls) = 1
  /\ cars[1].initial_embarked_pulls[1].user_pull_request_number \in merged_pulls
  /\ current_base_sha
       = merge_commit_sha(cars[1].initial_embarked_pulls[1].user_pull_request_number)
  /\ cars[2].creation_state = "created"
  /\ cars[2].checks_conclusion = "pending"

\* remove_pull keeps the head of the train only for a merged pull that is
\* the first of cars[0] while the train is synced with the base branch
takes_fast_path(T, pull, sha, merged) ==
  /\ pull.merged
  /\ T.cars # <<>>
  /\ T.cars[1].still_queued_embarked_pulls[1].user_pull_request_number = pull.number
  /\ is_synced_with_the_base_branch(T, sha, merged)

\* the number of leading cars whose pulls all sit before position (0-based)
cars_before(cs, position) ==
  Cardinality({k \in 1..Len(cs) :
                 number_of_pulls_in_cars(SubSeq(cs, 1, k)) <= position})

\* after is the train sliced at the position of pull request n, less the
\* entry at that position: the cars ahead are kept as they are, the others
\* are back in waiting_pulls, in order and ahead of the pulls that waited
sliced_at_pull(after, n) ==
  LET position == get_position(train, n)
      kept == cars_before(cars, position)
  IN /\ after.cars = SubSeq(cars, 1, kept)
     /\ after.waiting_pulls =
          RemoveAt(FlattenStill(SubSeq(cars, kept + 1, Len(cars))) \o waiting_pulls,
                   position - number_of_pulls_in_cars(SubSeq(cars, 1, kept)) + 1)
     /\ get_pulls(after) = RemoveAt(get_pulls(train), position + 1)

\* the calls of remove_pull for pull request n that the slow path serves:
\* merged tells whether the host has merged it, sha is the head of the branch
slow_path_calls(n) ==
  {c \in [merged : BOOLEAN, sha : {base_sha, merge_commit_sha(n), ExternalSha}] :
     /\ get_position(train, n) # -1
     /\ n \in merged_pulls => c.merged
     /\ LET M == IF c.merged THEN merged_pulls \cup {n} ELSE merged_pulls
        IN ~takes_fast_path(train, pull_of(n, M), c.sha, M)}

removed_by(n, c) ==
  LET M == IF c.merged THEN merged_pulls \cup {n} ELSE merged_pulls
  IN remove_pull(train, pull_of(n, M), c.sha, M).train

\* remove_pull on the slow path slices the train at the position of the pull
C14_SlowPathSlices ==
  \A n \in PullNumbers : \A c \in slow_path_calls(n) :
    sliced_at_pull(removed_by(n, c), n)

\* C14: remove_pull on the slow path keeps the cars that sit before the
\* pull, returns the pulls of the other cars to the front of waiting_pulls
\* in order, and removes the pull: the train does not hold it any more and
\* the other pulls are in the order they had
C14_SlowPathRemoves ==
  \A n \in PullNumbers : \A c \in slow_path_calls(n) :
    /\ sliced_at_pull(removed_by(n, c), n)
    /\ get_position(removed_by(n, c), n) = -1

\* the calls of remove_pull for pull request n the host can lead to
remove_calls(n) ==
  {c \in [merged : BOOLEAN, sha : {base_sha, merge_commit_sha(n), ExternalSha}] :
     n \in merged_pulls => c.merged}

remove_call(T, n, c) ==
  LET M == IF c.merged THEN merged_pulls \cup {n} ELSE merged_pulls
  IN remove_pull(T, pull_of(n, M), c.sha, M)

\* remove_pull of a pull that the train does not hold changes nothing
C15_RemoveAbsentNoOp ==
  \A n \in PullNumbers : \A c \in remove_calls(n) :
    get_position(train, n) = -1 =>
      remove_call(train, n, c) = [train |-> train, saved |-> FALSE]

\* C15: remove_pull of a pull that the train does not hold changes
\* nothing, and remove_pull called twice for a pull leaves the train as
\* remove_pull called once
C15_RemoveTwice ==
  \A n \in PullNumbers : \A c \in remove_calls(n) :
    /\ get_position(train, n) = -1 =>
         remove_call(train, n, c) = [train |-> train, saved |-> FALSE]
    /\ remove_call(remove_call(train, n, c).train, n, c).train
         = remove_call(train, n, c).train

\* ------------------------------------------------------------------ reset
\* a step that does to the train what reset does
ResetStep ==
  /\ cars # <<>>
  /\ cars' = reset(train).cars
  /\ waiting_pulls' = reset(train).waiting_pulls
  /\ current_base_sha' = reset(train).current_base_sha

\* C16: reset leaves no car and puts in waiting_pulls the pulls still
\* queued in the cars, in train order, ahead of the pulls that waited; no
\* pull is dropped, and the train it leaves is the one the store holds
C16_ResetKeepsPulls ==
  /\ [](cars # <<>> =>
          /\ reset(train).cars = <<>>
          /\ reset(train).waiting_pulls = FlattenStill(cars) \o waiting_pulls
          /\ get_pulls(reset(train)) = get_pulls(train)
          /\ load(save(reset(train))) = reset(train))
  /\ [][ResetStep => store' = save(reset(train))]_vars

\* reset of a train of two cars and a waiting pull: the three pulls wait,
\* those of the cars first
C16_Witness ==
  /\ Len(cars) = 2
  /\ Len(waiting_pulls) = 1
  /\ cars[1].checks_conclusion = "pending"
  /\ reset(train).cars = <<>>
  /\ Len(reset(train).waiting_pulls) = 3
  /\ reset(train).waiting_pulls[3] = waiting_pulls[1]
  /\ save(reset(train)) # store

\* -------------------------------------------------------- _get_next_batch
\* the batch sizes a queue rule can give (batch_size is at least 1)
BatchSizes == 1..MaxQueued

\* C17: _get_next_batch(pulls, queue_name, batch_size) cuts pulls in a
\* batch and a rest; the batch is the longest prefix of at most batch_size
\* pulls that are all of the queue queue_name, and is empty when pulls is
\* empty or starts with a pull of another queue
C17_NextBatchPrefix ==
  \A queue_name \in QueueNames, batch_size \in BatchSizes :
    LET r == get_next_batch(waiting_pulls, queue_name, batch_size)
        batch == r[1]
        rest == r[2]
    IN /\ batch \o rest = waiting_pulls
       /\ Len(batch) <= batch_size
       /\ \A i \in 1..Len(batch) : batch[i].config.name = queue_name
       /\ (Len(batch) < batch_size /\ rest # <<>>) =>
            rest[1].config.name # queue_name
       /\ (waiting_pulls = <<>> \/ waiting_pulls[1].config.name # queue_name) =>
            batch = <<>>

\* three pulls wait, two of a queue ahead of one of another queue: the
\* batch stops at the change of queue, before it is full
C17_Witness ==
  /\ Len(waiting_pulls) = 3
  /\ get_next_batch(waiting_pulls, "two", 3)
       = <<SubSeq(waiting_pulls, 1, 2), SubSeq(waiting_pulls, 3, 3)>>
  /\ get_next_batch(waiting_pulls, "one", 3) = <<(<<>>), waiting_pulls>>
  /\ get_next_batch(waiting_pulls, "two", 1)
       = <<SubSeq(waiting_pulls, 1, 1), SubSeq(waiting_pulls, 2, 3)>>

\* ------------------------------------------------- batches and their wait
\* the queue rule of the pull at the head of the train
head_rule(T) == QueueRules[iter_embarked_pulls(T)[1].embarked_pull.config.name]

\* the batch _populate_cars takes from the head of waiting_pulls
next_batch(T) ==
  get_next_batch(T.waiting_pulls,
                 iter_embarked_pulls(T)[1].embarked_pull.config.name,
                 head_rule(T).batch_size)[1]

\* _populate_cars comes to look at a batch: the last car has not failed,
\* the queue of the head pull exists, a car is missing and pulls of that
\* queue are waiting
populates(T) ==
  /\ T.cars # <<>> =>
       /\ T.cars[Len(T.cars)].creation_state # "failed"
       /\ T.cars[Len(T.cars)].checks_conclusion # "failure"
  /\ iter_embarked_pulls(T) # <<>>
  /\ iter_embarked_pulls(T)[1].embarked_pull.config.name \in DOMAIN QueueRules
  /\ missing_cars_of(T, head_rule(T)) > 0
  /\ T.waiting_pulls # <<>>
  /\ next_batch(T) # <<>>

\* what _populate_cars makes of the train at time t, the host starting
\* every car
populated(T, t) == populate_cars(T, QueueRules, AllOk, 0, t, base_sha)

\* _populate_cars at time t makes a car of the batch
launches(T, t) ==
  /\ Len(populated(T, t).train.cars) > Len(T.cars)
  /\ populated(T, t).train.cars[Len(T.cars) + 1].initial_embarked_pulls
       = next_batch(T)

oldest_queued_at(batch) ==
  SeqMin({batch[i].queued_at : i \in 1..Len(batch)})

\* C18: _populate_cars launches the batch iff it is full or its oldest
\* member (smallest queued_at) has waited batch_max_wait_time
C18_LaunchWhenOldestWaited ==
  populates(train) =>
    (launches(train, now) <=>
       \/ Len(next_batch(train)) = head_rule(train).batch_size
       \/ now - oldest_queued_at(next_batch(train))
            >= head_rule(train).batch_max_wait_time)

\* _populate_cars launches the batch iff it is full or its first member
\* has waited batch_max_wait_time
C18_LaunchWhenFirstWaited ==
  populates(train) =>
    (launches(train, now) <=>
       \/ Len(next_batch(train)) = head_rule(train).batch_size
       \/ now - next_batch(train)[1].queued_at
            >= head_rule(train).batch_max_wait_time)

\* C19: when _populate_cars finds a batch that is not ready it makes no
\* car, leaves waiting_pulls as it is and plans a refresh at queued_at +
\* batch_max_wait_time of the first pull of the batch; _populate_cars run
\* on that train at that time or later launches the batch, not full
C19_PlannedThenLaunched ==
  (populates(train) /\ ~launches(train, now)) =>
    LET first == next_batch(train)[1]
        at == first.queued_at + head_rule(train).batch_max_wait_time
    IN /\ populated(train, now).train.cars = cars
       /\ populated(train, now).train.waiting_pulls = waiting_pulls
       /\ populated(train, now).planned = Plan(first.user_pull_request_number, at)
       /\ at > now
       /\ Len(next_batch(train)) < head_rule(train).batch_size
       /\ \A t \in now..(MaxTime + 1) : t >= at => launches(train, t)

\* a batch that was not full has been launched at the time planned for it
C19_Witness ==
  /\ cars # <<>>
  /\ Len(cars[1].initial_embarked_pulls) < rule_of(cars[1]).batch_size
  /\ delayed_refresh # NoPlan
  /\ delayed_refresh.pull = cars[1].initial_embarked_pulls[1].user_pull_request_number
  /\ delayed_refresh.at
       = cars[1].initial_embarked_pulls[1].queued_at
           + rule_of(cars[1]).batch_max_wait_time
  /\ now >= delayed_refresh.at

\* ------------------------------------------------- which car is split
failed_batch(T, i) ==
  /\ T.cars[i].checks_conclusion = "failure"
  /\ Len(T.cars[i].initial_embarked_pulls) > 1

\* car i is the first car in train order that has failed, holds more than
\* one initial pull and has only cars that succeeded before it
first_to_split(T, i) ==
  /\ failed_batch(T, i)
  /\ \A j \in 1..(i - 1) : T.cars[j].checks_conclusion = "success"
  /\ \A j \in 1..(i - 1) :
       ~(/\ failed_batch(T, j)
         /\ \A h \in 1..(j - 1) : T.cars[h].checks_conclusion = "success")

\* R shows car i of T split: the cars before it stay, the car is no longer
\* there with its pulls, the last car of R is the failed car cut down to
\* its last pull, and the cars between have it in their failure history
is_split(T, R, i) ==
  /\ Len(R.cars) >= i
  /\ SubSeq(R.cars, 1, i - 1) = SubSeq(T.cars, 1, i - 1)
  /\ \A k \in 1..Len(R.cars) :
       R.cars[k].initial_embarked_pulls # T.cars[i].initial_embarked_pulls
  /\ R.cars[Len(R.cars)].checks_conclusion = "failure"
  /\ R.cars[Len(R.cars)].initial_embarked_pulls
       = <<T.cars[i].still_queued_embarked_pulls[
             Len(T.cars[i].still_queued_embarked_pulls)]>>
  /\ \A k \in i..(Len(R.cars) - 1) :
       /\ R.cars[k].failure_history # <<>>
       /\ IsSubsequence(R.cars[k].initial_embarked_pulls,
                        T.cars[i].initial_embarked_pulls)

\* R is T but for the start of a first car that was still pending
untouched(T, R) ==
  /\ R.waiting_pulls = T.waiting_pulls
  /\ Len(R.cars) = Len(T.cars)
  /\ \A k \in 1..Len(T.cars) :
       \/ R.cars[k] = T.cars[k]
       \/ k = 1 /\ T.cars[1].creation_state = "pending"

\* car j is a failed batch behind a car that has not succeeded
failed_behind(T, j) ==
  /\ failed_batch(T, j)
  /\ \E h \in 1..(j - 1) : T.cars[h].checks_conclusion # "success"

\* what _split_failed_batches makes of the train of a refresh
split_by(outcomes) ==
  split_failed_batches(before_split(train), QueueRules, outcomes).train

\* a car is split iff it is the first failed batch behind succeeded cars
SplitsFirstFailed ==
  \A outcomes \in OutcomeSeqs :
    \A i \in 1..Len(before_split(train).cars) :
      first_to_split(before_split(train), i)
        <=> is_split(before_split(train), split_by(outcomes), i)

\* C20, with the cars left untouched when no car is split: a refresh splits
\* a car iff it is the first car in train order that has failed, holds more
\* than one initial pull and has only succeeded cars before it; when there
\* is no such car, a failed batch behind a car that has not succeeded, the
\* other cars and waiting_pulls are left as they are
C20_SplitFirstFailed ==
  /\ SplitsFirstFailed
  /\ \A outcomes \in OutcomeSeqs :
       (/\ \A i \in 1..Len(before_split(train).cars) :
             ~first_to_split(before_split(train), i)
        /\ \E j \in 1..Len(before_split(train).cars) :
             failed_behind(before_split(train), j))
         => untouched(before_split(train), split_by(outcomes))

\* C20 as stated: a refresh splits a car iff it is the first car in train
\* order that has failed, holds more than one initial pull and has only
\* succeeded cars before it; every failed batch that has a car before it
\* which has not succeeded is left untouched, as are the other cars and
\* waiting_pulls
C20_FailedBehindUntouched ==
  /\ SplitsFirstFailed
  /\ \A outcomes \in OutcomeSeqs :
       \A j \in 1..Len(before_split(train).cars) :
         failed_behind(before_split(train), j)
           => /\ Len(split_by(outcomes).cars) >= j
              /\ split_by(outcomes).cars[j] = before_split(train).cars[j]
              /\ split_by(outcomes).waiting_pulls
                   = before_split(train).waiting_pulls

\* a failed batch behind a car that has succeeded, which a refresh splits,
\* or behind a car whose checks are pending, which a refresh leaves as it
\* is
C20_Witness ==
  /\ Len(cars) = 2
  /\ failed_batch(train, 2)
  /\ \/ /\ cars[1].checks_conclusion = "success"
        /\ first_to_split(train, 2)
        /\ is_split(train, split_by(AllOk), 2)
        /\ split_by(AllOk).cars[1] = cars[1]
     \/ /\ cars[1].checks_conclusion = "pending"
        /\ failed_behind(train, 2)
        /\ untouched(train, split_by(AllOk))
        /\ split_by(AllOk) = train

\* ------------------------------------------------- the cars of a split
\* the cars made of the groups when car i of T is split into R
group_cars(R, i) == SubSeq(R.cars, i, Len(R.cars) - 1)

\* the number of parts a failed car is cut in
parts_of(car) ==
  IF rule_of(car).speculative_checks > 2
  THEN rule_of(car).speculative_checks ELSE 2

\* R is T with car i split as section 4.3.1 says: the pulls of the car but
\* the last in contiguous groups of nearly equal sizes, one car per group
\* with the parents, base sha and failure history of the split, and the
\* cars behind torn down to the front of waiting_pulls
split_as_specified(T, R, i) ==
  LET car == T.cars[i]
      pulls == car.still_queued_embarked_pulls
      groups == group_cars(R, i)
  IN /\ Len(R.cars) >= i
     /\ SubSeq(R.cars, 1, i - 1) = SubSeq(T.cars, 1, i - 1)
     /\ FlattenInitial(groups) = DropLast(pulls)
     /\ Len(groups) <= parts_of(car)
     /\ Len(groups) = parts_of(car) \/ Len(groups) = Len(pulls) - 1
     /\ \A j, k \in 1..Len(groups) :
          /\ groups[j].initial_embarked_pulls # <<>>
          /\ Len(groups[j].initial_embarked_pulls)
               - Len(groups[k].initial_embarked_pulls) <= 1
     /\ \A j \in 1..Len(groups) :
          /\ groups[j].still_queued_embarked_pulls
               = groups[j].initial_embarked_pulls
          /\ groups[j].parent_pull_request_numbers
               = car.parent_pull_request_numbers
                   \o Numbers(FlattenInitial(SubSeq(groups, 1, j - 1)))
          /\ groups[j].initial_current_base_sha = car.initial_current_base_sha
          /\ groups[j].failure_history
               = car.failure_history \o <<R.cars[Len(R.cars)]>>
     /\ R.cars[Len(R.cars)].initial_embarked_pulls = <<pulls[Len(pulls)]>>
     /\ R.cars[Len(R.cars)].checks_conclusion = "failure"
     /\ R.waiting_pulls
          = FlattenStill(SubSeq(T.cars, i + 1, Len(T.cars))) \o T.waiting_pulls

\* the answers of the host among which none postpones a car
NotPostponed == {o \in OutcomeSeqs : \A j \in 1..MaxStarts : o[j] # "postponed"}

waits_behind(T, k) ==
  /\ k >= 2
  /\ T.cars[k].failure_history # <<>>
  /\ rule_of(T.cars[k]).speculative_checks = 1

\* car k has not been started: no synthetic branch, no draft pull request
not_started(T, k) ==
  /\ T.cars[k].creation_state = "pending"
  /\ T.cars[k].checks_conclusion = "pending"
  /\ T.cars[k].head_branch = NoBranch
  /\ T.cars[k].queue_pull_request_number = NoPull

\* the first car is a new car of a split that has not been started
pending_first(T) ==
  /\ T.cars # <<>>
  /\ T.cars[1].failure_history # <<>>
  /\ T.cars[1].creation_state = "pending"

\* C22: with speculative_checks = 1 a split starts the first new car only,
\* a new car is not started as long as a car is ahead of it, and the
\* refresh that finds it first starts it; with speculative_checks > 1 the
\* split starts every new car
C22_StartedWhenFirst ==
  /\ \A k \in 1..Len(cars) : waits_behind(train, k) => not_started(train, k)
  /\ \A outcomes \in OutcomeSeqs :
       \A i \in 1..Len(before_split(train).cars) :
         first_to_split(before_split(train), i) =>
           /\ \A k \in 1..Len(split_by(outcomes).cars) :
                waits_behind(split_by(outcomes), k)
                  => not_started(split_by(outcomes), k)
           /\ (outcomes[1] # "postponed"
                 /\ Len(before_split(train).cars[i].still_queued_embarked_pulls) > 1)
                => split_by(outcomes).cars[i].creation_state # "pending"
           /\ (outcomes \in NotPostponed
                 /\ rule_of(before_split(train).cars[i]).speculative_checks > 1)
                => \A k \in i..Len(split_by(outcomes).cars) :
                     split_by(outcomes).cars[k].creation_state # "pending"
  /\ \A outcomes \in OutcomeSeqs :
       pending_first(before_split(train)) =>
         /\ split_by(outcomes)
              = start_checking_car(before_split(train),
                                   rule_of(before_split(train).cars[1]), 1,
                                   outcomes[1]).train
         /\ outcomes[1] = "ok" =>
              /\ split_by(outcomes).cars[1].initial_embarked_pulls
                   = before_split(train).cars[1].initial_embarked_pulls
              /\ split_by(outcomes).cars[1].creation_state \in {"created", "updated"}
              /\ split_by(outcomes).cars[1].checks_conclusion = "pending"

\* a new car of a split that waited behind another one has come first and a
\* refresh has started it, while the next is still waiting
C22_Witness ==
  /\ Len(cars) >= 2
  /\ rule_of(cars[1]).speculative_checks = 1
  /\ cars[1].failure_history # <<>>
  /\ cars[1].parent_pull_request_numbers # <<>>
  /\ cars[1].creation_state = "created"
  /\ cars[1].queue_pull_request_number # NoPull
  /\ cars[2].checks_conclusion = "failure"

\* --------------------------------------------- the failed car after a split
\* car k is a failed car cut to its last pull by a split: it still carries
\* the branch of the whole batch
is_residual(T, k) ==
  /\ T.cars[k].checks_conclusion = "failure"
  /\ Len(T.cars[k].still_queued_embarked_pulls) = 1
  /\ Len(T.cars[k].initial_embarked_pulls) = 1
  /\ Len(T.cars[k].head_branch) > 1

\* what a split leaves of the failed car
cut_to_last(car, left) ==
  /\ left.still_queued_embarked_pulls
       = <<car.still_queued_embarked_pulls[Len(car.still_queued_embarked_pulls)]>>
  /\ left.initial_embarked_pulls = left.still_queued_embarked_pulls
  /\ left.parent_pull_request_numbers
       = car.parent_pull_request_numbers
           \o Numbers(DropLast(car.still_queued_embarked_pulls))
  /\ left.checks_conclusion = car.checks_conclusion
  /\ left.creation_state = car.creation_state
  /\ left.queue_pull_request_number = car.queue_pull_request_number
  /\ left.failure_history = car.failure_history

\* C23: a split re-appends the failed car last, cut to its last pull and
\* otherwise unchanged, and a later refresh leaves it where it is
C23_ResidualKept ==
  \A outcomes \in OutcomeSeqs :
    /\ \A i \in 1..Len(before_split(train).cars) :
         first_to_split(before_split(train), i) =>
           /\ split_by(outcomes).cars # <<>>
           /\ cut_to_last(before_split(train).cars[i],
                          split_by(outcomes).cars[Len(split_by(outcomes).cars)])
    /\ \A k \in 1..Len(before_split(train).cars) :
         is_residual(before_split(train), k) =>
           \E j \in 1..Len(split_by(outcomes).cars) :
             split_by(outcomes).cars[j] = before_split(train).cars[k]

\* ------------------------------------------------- the name of the branch
\* the car is the failed car of a split: its branch is the one of the whole
\* batch, whose other pulls are now among its parents or merged
branch_of_batch(car) ==
  /\ car.checks_conclusion = "failure"
  /\ Len(car.initial_embarked_pulls) = 1
  /\ Len(car.head_branch) > 1
  /\ car.head_branch[Len(car.head_branch)]
       = car.initial_embarked_pulls[1].user_pull_request_number
  /\ \A j \in 1..(Len(car.head_branch) - 1) :
       \/ car.head_branch[j] \in merged_pulls
       \/ \E m \in 1..Len(car.parent_pull_request_numbers) :
            car.parent_pull_request_numbers[m] = car.head_branch[j]

\* C24 as stated: the branch of a car is named after the pulls the car
\* started with
C24_BranchOfInitialPulls ==
  \A k \in 1..Len(cars) :
    cars[k].head_branch # NoBranch =>
      cars[k].head_branch = Numbers(cars[k].initial_embarked_pulls)

\* C24, amended: create_pull names the branch after the initial pulls of the
\* car, and the failed car of a split keeps the branch of the whole batch
C24_BranchOfCreation ==
  \A k \in 1..Len(cars) :
    cars[k].head_branch # NoBranch =>
      \/ cars[k].head_branch = Numbers(cars[k].initial_embarked_pulls)
      \/ branch_of_batch(cars[k])

\* a split has left the failed car with the branch of the batch, behind a
\* new car that has its own
C24_Witness ==
  /\ Len(cars) >= 2
  /\ cars[1].head_branch # NoBranch
  /\ cars[1].failure_history # <<>>
  /\ is_residual(train, Len(cars))

\* ------------------------------------------- signals and the saved snapshot
\* Train._refresh_pulls: a refresh signal to every pull request of the train
refresh_pulls(T) == IF get_pulls(T) = <<>> THEN <<>> ELSE <<"signal">>

\* what Train.remove_pull sends and saves, in order
remove_pull_events(T, pull, host_sha, merged) ==
  IF remove_pull(T, pull, host_sha, merged).saved
  THEN <<"save">> \o refresh_pulls(remove_pull(T, pull, host_sha, merged).train)
  ELSE <<>>

\* what Train.add_pull sends and saves, in order: a pull request that is
\* added again goes through remove_pull first
add_pull_events(T, pull, config, t, host_sha, merged) ==
  IF add_pull(T, pull, config, t, host_sha, merged).saved
  THEN (IF get_position(T, pull.number) # -1
        THEN remove_pull_events(T, pull, host_sha, merged) ELSE <<>>)
       \o <<"save">>
       \o refresh_pulls(add_pull(T, pull, config, t, host_sha, merged).train)
  ELSE <<>>

\* what Train.refresh sends and saves, in order: _split_failed_batches
\* signals the draft pull request of a single failed car, the pulls of a
\* train it has split and, through _set_creation_failure, the pulls of a
\* car whose creation failed; save is the last statement of refresh
refresh_events(T, r, outcomes) ==
  (IF /\ Len(before_split(T).cars) = 1
      /\ before_split(T).cars[1].checks_conclusion = "failure"
      /\ Len(before_split(T).cars[1].initial_embarked_pulls) = 1
      /\ before_split(T).cars[1].queue_pull_request_number # NoPull
   THEN <<"signal">> ELSE <<>>)
  \o (IF \E j \in 1..r.used : outcomes[j] = "failed" THEN <<"signal">> ELSE <<>>)
  \o (IF r.split # 0 THEN <<"signal">> ELSE <<>>)
  \o <<"save">>

signals_after_save(events) ==
  \A i \in 1..Len(events) :
    events[i] = "signal" => \E j \in 1..(i - 1) : events[j] = "save"

\* C25: whatever the train does next (add_pull, remove_pull or refresh), it
\* sends a refresh signal only after it has saved its new snapshot
C25_SignalsAfterSave ==
  /\ \A n \in PullNumbers, config \in Configs :
       signals_after_save(add_pull_events(train, pull_of(n, merged_pulls), config,
                                          now, base_sha, merged_pulls))
  /\ \A n \in PullNumbers :
       signals_after_save(remove_pull_events(train, pull_of(n, merged_pulls),
                                             base_sha, merged_pulls))
  /\ \A outcomes \in OutcomeSeqs :
       signals_after_save(refresh_events(train,
         refresh(train, QueueRules, outcomes, now, base_sha), outcomes))

\* ------------------------------------------------ a postponed car creation
\* every pull of the car waits in T
waits_in(car, T) ==
  \A i \in 1..Len(car.still_queued_embarked_pulls) :
    \E j \in 1..Len(T.waiting_pulls) :
      T.waiting_pulls[j] = car.still_queued_embarked_pulls[i]

\* C26: when the host postpones the creation of a car, that car and no
\* other leaves the train, its pulls wait, and the refresh starts no other
\* car; here for the car that a refresh finds first and not yet started,
\* and for every start of a refresh
C26_PostponedRemovesCar ==
  \A outcomes \in OutcomeSeqs :
    /\ (pending_first(before_split(train)) /\ outcomes[1] = "postponed") =>
         /\ split_by(outcomes).cars = Tail(before_split(train).cars)
         /\ waits_in(before_split(train).cars[1], split_by(outcomes))
    /\ \A j \in 1..(refresh(train, QueueRules, outcomes, now, base_sha).used - 1) :
         outcomes[j] # "postponed"

\* --------------------------------------------------- TrainCar.create_pull
\* the pull requests of the cars that are created one call at a time
MaxCreate == 3

\* what the host answers to the calls of one create_pull or delete_pull:
\* ref and delete tell whether the call is served or refused with another
\* client error, missing is the answer to the deletion of a ref that does
\* not exist, merge_at is the merge that fails (0 for none; a merge stands
\* for its attempts, at most 4 while the base is missing), merge_kind the
\* error it fails with, pull the answer to the opening of the draft
HostAnswers ==
  [ref : {"served", "error"},
   delete : {"served", "error"},
   missing : {"not_found", "no_reference"},
   merge_at : 0..MaxCreate,
   merge_kind : {"base_missing", "forbidden", "conflict", "error"},
   pull : {"ok", "error"}]

NumberSet(eps) == {eps[i].user_pull_request_number : i \in 1..Len(eps)}

\* POST git/refs: 422 'Reference already exists' when the ref is there
ref_answer(refs, branch, a) ==
  IF a.ref = "error" THEN "error"
  ELSE IF branch \in refs THEN "exists" ELSE "ok"

\* DELETE git/refs/heads/<branch>
delete_answer(refs, branch, a) ==
  IF a.delete = "error" THEN "error"
  ELSE IF branch \in refs THEN "ok" ELSE a.missing

\* TrainCar._delete_branch: HTTPNotFound and 422 'Reference does not exist'
\* are swallowed, any other client error is raised
delete_branch(h, branch, a) ==
  [host |-> [h EXCEPT
               !.refs = IF delete_answer(h.refs, branch, a) = "ok"
                        THEN @ \ {branch} ELSE @,
               !.refused = IF delete_answer(h.refs, branch, a) = "error"
                           THEN @ \cup {branch} ELSE @,
               !.calls = Append(@, "delete")],
   raised |-> delete_answer(h.refs, branch, a) = "error"]

\* TrainCar._set_creation_failure: the still queued pulls of the car that
\* are in only get the action_required check and a refresh signal
set_creation_failure(car, h, only) ==
  [car |-> [car EXCEPT !.creation_state = "failed"],
   host |-> [h EXCEPT
               !.checks = @ \cup (NumberSet(car.still_queued_embarked_pulls) \cap only),
               !.signals = @ \cup (NumberSet(car.still_queued_embarked_pulls) \cap only)]]

\* create_pull is left with TrainCarPullRequestCreationFailure
creation_failure(f) == [car |-> f.car, host |-> f.host, raised |-> "failure"]

\* create_pull is left after _delete_branch, with the error of the deletion
\* when it raises one
leave_deleting(car, d, raised) ==
  [car |-> car, host |-> d.host,
   raised |-> IF d.raised THEN "http_error" ELSE raised]

\* the last step of create_pull: the draft pull request is opened
open_pull(car, h, a) ==
  IF a.pull = "error"
  THEN creation_failure(set_creation_failure(car,
         [h EXCEPT !.calls = Append(@, "pull")],
         NumberSet(car.still_queued_embarked_pulls)))
  ELSE [car |-> started(car, "created",
                        DraftNumberOffset
                        + car.still_queued_embarked_pulls[
                            Len(car.still_queued_embarked_pulls)].user_pull_request_number),
        host |-> [h EXCEPT !.calls = Append(@, "pull")],
        raised |-> "none"]

\* the pull requests create_pull merges into the branch, in order
merged_numbers(car) ==
  car.parent_pull_request_numbers \o Numbers(car.still_queued_embarked_pulls)

\* the merge that fails and its error: the first one, base missing, when
\* the ref is not there
failing_merge(car, h, a) ==
  IF car.head_branch \in h.refs
  THEN [at |-> a.merge_at, kind |-> a.merge_kind]
  ELSE [at |-> 1, kind |-> "base_missing"]

\* the outcome of the merges, m being the merge that fails
merged_until(car, h, a, m) ==
  IF m.at = 0 THEN open_pull(car, h, a)
  ELSE IF m.kind \in {"base_missing", "forbidden"}
  THEN leave_deleting(car, delete_branch(h, car.head_branch, a), "postponed")
  ELSE leave_deleting([car EXCEPT !.creation_state = "failed"],
                      delete_branch(
                        set_creation_failure(car, h, {merged_numbers(car)[m.at]}).host,
                        car.head_branch, a),
                      "failure")

\* the second step of create_pull: the merges of the parents and of the
\* pulls of the car
merge_pulls(car, h, a) ==
  merged_until(car,
    [h EXCEPT !.calls =
       @ \o [i \in 1..(IF failing_merge(car, h, a).at = 0
                        THEN Len(merged_numbers(car))
                        ELSE failing_merge(car, h, a).at) |-> "merge"]],
    a, failing_merge(car, h, a))

\* create_pull after 422 'Reference already exists': it fails when the
\* deletion of the ref raises, and goes on with the merges otherwise
after_existing(car, d, a) ==
  IF d.raised
  THEN creation_failure(set_creation_failure(car, d.host,
                          NumberSet(car.still_queued_embarked_pulls)))
  ELSE merge_pulls(car, d.host, a)

\* the first step of create_pull, head_branch and creation_state being set
ref_created(car, h, a, answer) ==
  CASE answer = "ok" ->
         merge_pulls(car, [h EXCEPT !.refs = @ \cup {car.head_branch}], a)
    [] answer = "exists" ->
         after_existing(car, delete_branch(h, car.head_branch, a), a)
    [] OTHER ->
         creation_failure(set_creation_failure(car, h,
                            NumberSet(car.still_queued_embarked_pulls)))

\* TrainCar.create_pull of a queue without draft_bot_account
create_pull(car, h, a) ==
  ref_created([car EXCEPT !.head_branch = get_pulls_branch_ref(car),
                          !.creation_state = "created"],
              [h EXCEPT !.calls = <<"ref">>], a,
              ref_answer(h.refs, get_pulls_branch_ref(car), a))

\* TrainCar.delete_pull: the summary of the draft is patched, the branch
\* is deleted; nothing is done for a car without a draft pull request
delete_pull(car, h, a) ==
  IF car.queue_pull_request_number = NoPull \/ car.head_branch = NoBranch
  THEN [host |-> [h EXCEPT !.calls = <<>>], raised |-> FALSE]
  ELSE delete_branch([h EXCEPT !.calls = <<>>], car.head_branch, a)

\* the answers the host can give to the creation of this car
answers_for(car) == {a \in HostAnswers : a.merge_at <= Len(merged_numbers(car))}

\* a car that is not started yet, made of the pull requests first..final
\* behind the pull requests before first
InitCreate ==
  /\ \E first \in 1..MaxCreate : \E final \in first..MaxCreate :
       cars = <<TrainCar([i \in 1..(final - first + 1) |->
                            EmbarkedPull(first + i - 1,
                                         get_config("two", MaxPriority), 0)],
                         [i \in 1..(first - 1) |-> i], InitialSha, <<>>)>>
  /\ waiting_pulls = <<>>
  /\ current_base_sha = InitialSha
  /\ store = NoDocument
  /\ now = 0
  /\ base_sha = InitialSha
  /\ merged_pulls = {}
  /\ last = Called("init", "none")
  /\ other_store = NoDocument
  /\ other_base_sha = InitialSha
  /\ delayed_refresh = NoPlan
  /\ host = NoHost
  /\ http = NoRequest
  /\ tasks = NoTasks

\* the result r of create_pull is taken
Created(r) ==
  /\ cars' = <<r.car>>
  /\ host' = r.host
  /\ last' = Called("create_pull", r.raised)
  /\ UNCHANGED <<waiting_pulls, current_base_sha, store, now, base_sha,
                 merged_pulls, others, delayed_refresh, http, tasks>>

\* create_pull for the car that is not started yet
CreatePull ==
  /\ cars # <<>>
  /\ cars[1].creation_state = "pending"
  /\ \E a \in answers_for(cars[1]) : Created(create_pull(cars[1], host, a))

\* the result d of delete_pull is taken: the car is gone and its pulls wait
Deleted(d) ==
  /\ host' = d.host
  /\ cars' = IF d.raised THEN cars ELSE <<>>
  /\ waiting_pulls' = IF d.raised THEN waiting_pulls
                      ELSE cars[1].still_queued_embarked_pulls
  /\ last' = Called("delete_pull", IF d.raised THEN "http_error" ELSE "none")
  /\ UNCHANGED <<current_base_sha, store, now, base_sha, merged_pulls,
                 others, delayed_refresh, http, tasks>>

\* Train._slice_cars(0): the car is destroyed through delete_pull
DeletePull ==
  /\ cars # <<>>
  /\ \E a \in HostAnswers : a.merge_at = 0 /\ a.pull = "ok" /\ a.ref = "served"
       /\ a.merge_kind = "error" /\ Deleted(delete_pull(cars[1], host, a))

\* Train._populate_cars makes a new car of the waiting pulls, whose parents
\* have left the train
NewCar ==
  /\ cars = <<>>
  /\ waiting_pulls # <<>>
  /\ cars' = <<TrainCar(waiting_pulls, <<>>, InitialSha, <<>>)>>
  /\ waiting_pulls' = <<>>
  /\ last' = Called("populate_cars", "none")
  /\ UNCHANGED <<current_base_sha, store, now, base_sha, merged_pulls,
                 others, delayed_refresh, host, http, tasks>>

NextCreate == CreatePull \/ DeletePull \/ NewCar

SpecCreate == InitCreate /\ [][NextCreate]_vars

\* the first car is not started yet
pending_car == cars # <<>> /\ cars[1].creation_state = "pending"

\* the host answers 'Merge conflict' to a merge of create_pull and serves
\* the other calls
conflicting(car, h, a) ==
  /\ ref_answer(h.refs, get_pulls_branch_ref(car), a) = "ok"
  /\ a.merge_at >= 1
  /\ a.merge_kind = "conflict"
  /\ a.delete = "served"

\* the car r.car is car with its creation failed, all its pulls kept, and
\* pull request n alone has been told
failed_for(car, h, r, n) ==
  /\ r.raised = "failure"
  /\ r.car.creation_state = "failed"
  /\ r.car.still_queued_embarked_pulls = car.still_queued_embarked_pulls
  /\ r.car.initial_embarked_pulls = car.initial_embarked_pulls
  /\ get_pulls_branch_ref(car) \notin r.host.refs
  /\ r.host.checks = h.checks \cup {n}
  /\ r.host.signals = h.signals \cup {n}

\* C27: on 'Merge conflict' the creation of the car fails, the branch is
\* deleted, the conflicting pull request and no other gets the check and
\* the refresh signal, and the car keeps all its pulls
C27_ConflictFailsThePull ==
  pending_car =>
    \A a \in answers_for(cars[1]) :
      conflicting(cars[1], host, a) =>
        failed_for(cars[1], host, create_pull(cars[1], host, a),
                   merged_numbers(cars[1])[a.merge_at])

\* the part of C27 about the train: a refresh starts no car after one whose
\* creation has failed
C27_NoCarAfterFailure ==
  \A outcomes \in OutcomeSeqs :
    \A j \in 1..(refresh(train, QueueRules, outcomes, now, base_sha).used - 1) :
      outcomes[j] # "failed"

\* C28: on 422 'Reference already exists' the ref is deleted and the
\* creation fails, with no merge and no draft pull request attempted
C28_ExistingRefFails ==
  pending_car =>
    \A a \in answers_for(cars[1]) :
      (/\ ref_answer(host.refs, get_pulls_branch_ref(cars[1]), a) = "exists"
       /\ a.delete = "served") =>
        /\ create_pull(cars[1], host, a).raised = "failure"
        /\ create_pull(cars[1], host, a).car.creation_state = "failed"
        /\ get_pulls_branch_ref(cars[1]) \notin create_pull(cars[1], host, a).host.refs
        /\ create_pull(cars[1], host, a).host.calls = <<"ref", "delete">>

\* branch b belongs to a car of the train that has its draft pull request
owned(b) ==
  \E k \in 1..Len(cars) :
    /\ cars[k].head_branch = b
    /\ cars[k].creation_state = "created"
    /\ cars[k].queue_pull_request_number # NoPull

\* C29: a synthetic ref that the host has not refused to delete exists
\* only while a car of the train owns it
C29_RefsOwned == \A b \in host.refs \ host.refused : owned(b)

\* ------------------------------------------------- AsyncClient.request
\* stop=tenacity.stop_after_attempt(5)
StopAfterAttempt == 5

\* what an attempt meets: no response at all (httpx.RequestError), or the
\* status code of the response
TransportError == 0
Statuses == {TransportError, 200, 403, 404, 429, 500, 503}

\* STATUS_CODE_TO_EXC
STATUS_CODE_TO_EXC ==
  [status \in {401, 403, 404, 429, 503} |->
     CASE status = 401 -> "HTTPUnauthorized"
       [] status = 403 -> "HTTPForbidden"
       [] status = 404 -> "HTTPNotFound"
       [] status = 429 -> "HTTPTooManyRequests"
       [] OTHER -> "HTTPServiceUnavailable"]

\* the classes an exception class derives from, itself included
bases(class) ==
  CASE class \in {"HTTPForbidden", "HTTPUnauthorized", "HTTPNotFound",
                  "HTTPTooManyRequests"} -> {class, "HTTPClientSideError"}
    [] class = "HTTPServiceUnavailable" -> {class, "HTTPServerSideError"}
    [] OTHER -> {class}

\* raise_for_status: the class of the exception raised for the response,
\* "none" when it raises nothing
raise_for_status(status) ==
  IF status >= 400 /\ status <= 499
  THEN IF status \in DOMAIN STATUS_CODE_TO_EXC
       THEN STATUS_CODE_TO_EXC[status] ELSE "HTTPClientSideError"
  ELSE IF status >= 500 /\ status <= 599
  THEN IF status \in DOMAIN STATUS_CODE_TO_EXC
       THEN STATUS_CODE_TO_EXC[status] ELSE "HTTPServerSideError"
  ELSE "none"

\* what one attempt raises
attempt_raises(status) ==
  IF status = TransportError THEN "RequestError" ELSE raise_for_status(status)

\* a mutation of retry_if_exception_type: every exception is retried
retry_if_exception_any(class) == class # "none"

\* retry=tenacity.retry_if_exception_type((RequestError,
\* HTTPServerSideError, HTTPTooManyRequests))
retry_if_exception_type(class) ==
  bases(class) \cap {"RequestError", "HTTPServerSideError", "HTTPTooManyRequests"} # {}

\* connectivity_issue_retry after one more attempt that met status: the
\* response is returned, the attempt is made again, or the exception of
\* this attempt is raised (reraise=True)
connectivity_issue_retry(h, status) ==
  [attempts |-> Append(h.attempts, status),
   result |-> IF attempt_raises(status) = "none" THEN "returned"
              ELSE IF /\ retry_if_exception_type(attempt_raises(status))
                      /\ Len(h.attempts) + 1 < StopAfterAttempt
              THEN "none" ELSE "raised",
   error |-> IF attempt_raises(status) = "none" THEN "none"
             ELSE IF /\ retry_if_exception_type(attempt_raises(status))
                     /\ Len(h.attempts) + 1 < StopAfterAttempt
             THEN "none" ELSE attempt_raises(status)]

\* one attempt of AsyncClient.request
Request ==
  /\ http.result = "none"
  /\ \E status \in Statuses : http' = connectivity_issue_retry(http, status)
  /\ UNCHANGED <<cars, waiting_pulls, current_base_sha, store, now, base_sha,
                 merged_pulls, last, others, delayed_refresh, host, tasks>>

NextHttp == Request

SpecHttp == Init /\ [][NextHttp]_vars

\* the attempt met a transport error, a 5xx or a 429
connectivity_issue(status) ==
  \/ status = TransportError
  \/ status >= 500 /\ status <= 599
  \/ status = 429

\* C30: a request is attempted at most 5 times, an attempt is made again
\* only after a transport error, a 5xx or a 429, the first response that
\* is no error is returned, and the error of the last attempt is raised
\* after another 4xx or after the 5th failed attempt
C30_RetriesConnectivityIssues ==
  /\ Len(http.attempts) <= StopAfterAttempt
  /\ \A i \in 1..(Len(http.attempts) - 1) : connectivity_issue(http.attempts[i])
  /\ http.result = "returned" =>
       LET status == http.attempts[Len(http.attempts)]
       IN status # TransportError /\ status < 400 /\ http.error = "none"
  /\ http.result = "raised" =>
       LET status == http.attempts[Len(http.attempts)]
       IN /\ status = TransportError \/ status >= 400
          /\ http.error = attempt_raises(status)
          /\ connectivity_issue(status) => Len(http.attempts) = StopAfterAttempt
  /\ (http.result = "none" /\ http.attempts # <<>>) =>
       /\ connectivity_issue(http.attempts[Len(http.attempts)])
       /\ Len(http.attempts) < StopAfterAttempt

\* the 5th attempt has failed after four connectivity issues and its error
\* is raised
C30_Witness ==
  /\ Len(http.attempts) = StopAfterAttempt
  /\ http.result = "raised"
  /\ http.error = "HTTPTooManyRequests"

\* ------------------------------------------ two operations on two trains
\* the numbers of S in increasing order
RECURSIVE Ascending(_)
Ascending(S) ==
  IF S = {} THEN <<>> ELSE <<SeqMin(S)>> \o Ascending(S \ {SeqMin(S)})

\* a train whose pull requests all wait, as add_pull leaves them
waiting_train(ns) ==
  Train(<<>>,
        [i \in 1..Len(ns) |-> EmbarkedPull(ns[i], get_config("two", MaxPriority), 0)],
        NoSha)

\* the operations on the train of the other branch that run next to an
\* add_pull on this branch
RaceOps == [kind : {"add_pull", "remove_pull"}, m : PullNumbers]

\* the operation op on the train T of the other branch
operation(T, op) ==
  IF op.kind = "add_pull"
  THEN add_pull(T, pull_of(op.m, merged_pulls), get_config("two", MaxPriority),
                now, other_base_sha, merged_pulls)
  ELSE remove_pull(T, pull_of(op.m, merged_pulls), other_base_sha, merged_pulls)

\* the document of a train after an operation with result r: Train.save
\* is only called when the train has changed
saved_after(train_raw, r) == IF r.saved THEN save(r.train) ELSE train_raw

\* the document of the other branch after the operation op alone
operated(train_raw, op) == saved_after(train_raw, operation(load(train_raw), op))

\* the document of the other branch after add_pull of n on this branch
\* alone
evicted(train_raw, n) ==
  force_remove_pull(train_raw, pull_of(n, merged_pulls), other_base_sha,
                    merged_pulls)

\* add_pull of n on this branch (x) and an operation on the train of the
\* other branch (y) are about to run; the other train holds some pull
\* requests, this one is empty
InitRace ==
  /\ cars = <<>>
  /\ waiting_pulls = <<>>
  /\ current_base_sha = NoSha
  /\ store = NoDocument
  /\ now = 0
  /\ base_sha = InitialSha
  /\ merged_pulls = {}
  /\ last = Called("init", "none")
  /\ \E S \in SUBSET PullNumbers : other_store = save(waiting_train(Ascending(S)))
  /\ other_base_sha = InitialSha
  /\ delayed_refresh = NoPlan
  /\ host = NoHost
  /\ http = NoRequest
  /\ \E n \in PullNumbers, op \in RaceOps :
       /\ op.kind = "add_pull" => op.m # n
       /\ tasks = [x |-> [pc |-> "start", n |-> n, loaded |-> NoDocument],
                   y |-> [pc |-> "start", op |-> op, loaded |-> NoDocument],
                   initial |-> other_store]

\* Train.iter_trains in force_remove_pull: the document of the other train
\* is read
EvictLoad ==
  /\ tasks.x.pc = "start"
  /\ tasks' = [tasks EXCEPT !.x.pc = "loaded", !.x.loaded = other_store]
  /\ UNCHANGED <<cars, waiting_pulls, current_base_sha, store, now, base_sha,
                 merged_pulls, last, others, delayed_refresh, host, http>>

\* remove_pull on the train that was read, saved when it has changed
EvictSave ==
  /\ tasks.x.pc = "loaded"
  /\ other_store' = saved_after(other_store,
                       remove_pull(load(tasks.x.loaded),
                                   pull_of(tasks.x.n, merged_pulls),
                                   other_base_sha, merged_pulls))
  /\ tasks' = [tasks EXCEPT !.x.pc = "evicted"]
  /\ UNCHANGED <<cars, waiting_pulls, current_base_sha, store, now, base_sha,
                 merged_pulls, last, other_base_sha, delayed_refresh, host, http>>

\* the rest of add_pull on this branch
EvictAdd ==
  /\ tasks.x.pc = "evicted"
  /\ SetTrain(add_pull(train, pull_of(tasks.x.n, merged_pulls),
                       get_config("two", MaxPriority), now, base_sha,
                       merged_pulls).train, TRUE)
  /\ tasks' = [tasks EXCEPT !.x.pc = "done"]
  /\ UNCHANGED <<now, base_sha, merged_pulls, last, others, delayed_refresh,
                 host, http>>

\* Train.from_context of the operation on the other branch: its train is
\* loaded
OtherLoad ==
  /\ tasks.y.pc = "start"
  /\ tasks' = [tasks EXCEPT !.y.pc = "loaded", !.y.loaded = other_store]
  /\ UNCHANGED <<cars, waiting_pulls, current_base_sha, store, now, base_sha,
                 merged_pulls, last, others, delayed_refresh, host, http>>

\* the operation on the train that was loaded, saved when it has changed
OtherSave ==
  /\ tasks.y.pc = "loaded"
  /\ other_store' = saved_after(other_store,
                                operation(load(tasks.y.loaded), tasks.y.op))
  /\ tasks' = [tasks EXCEPT !.y.pc = "done"]
  /\ UNCHANGED <<cars, waiting_pulls, current_base_sha, store, now, base_sha,
                 merged_pulls, last, other_base_sha, delayed_refresh, host, http>>

NextRace == EvictLoad \/ EvictSave \/ EvictAdd \/ OtherLoad \/ OtherSave

SpecRace == InitRace /\ [][NextRace]_vars

\* C31: when both operations are over, the document of the other train is
\* the one that one of the two serial orders leaves, and this train holds
\* the pull request that was added
C31_Serializable ==
  (tasks # NoTasks /\ tasks.x.pc = "done" /\ tasks.y.pc = "done") =>
    /\ other_store \in {operated(evicted(tasks.initial, tasks.x.n), tasks.y.op),
                         evicted(operated(tasks.initial, tasks.y.op), tasks.x.n)}
    /\ store = save(waiting_train(<<tasks.x.n>>))

\* ------------------------------------------ speculative_checks is lowered
\* the queue rules with speculative_checks lowered to 1
LoweredRules ==
  [q \in QueueNames |-> [QueueRules[q] EXCEPT !.speculative_checks = 1]]

\* the last car has neither failed to be created nor failed its checks
last_car_sound(T) ==
  /\ T.cars[Len(T.cars)].creation_state # "failed"
  /\ T.cars[Len(T.cars)].checks_conclusion # "failure"

\* the train has more cars than the lowered speculative_checks of the queue
\* of its head
too_many_cars(T, queue_rules) ==
  /\ T.cars # <<>>
  /\ iter_embarked_pulls(T) # <<>>
  /\ queue_rules[iter_embarked_pulls(T)[1].embarked_pull.config.name].speculative_checks
       < Len(T.cars)
  /\ last_car_sound(T)

\* R is T cut to its first k cars, the pulls of the others waiting first
cut_to(T, R, k) ==
  /\ R.cars = SubSeq(T.cars, 1, k)
  /\ R.waiting_pulls
       = FlattenStill(SubSeq(T.cars, k + 1, Len(T.cars))) \o T.waiting_pulls

\* C32 as stated: a refresh under the lowered rules keeps the first
\* speculative_checks cars as they are and makes the pulls of the others
\* wait first, in their order
C32_CutToSpeculativeChecks ==
  too_many_cars(train, LoweredRules) =>
    \A outcomes \in OutcomeSeqs :
      cut_to(train, refresh(train, LoweredRules, outcomes, now, base_sha).train, 1)

\* C32, amended: so does a refresh under the lowered rules that splits no
\* failed batch
C32_CutWhenNoSplit ==
  too_many_cars(train, LoweredRules) =>
    \A outcomes \in OutcomeSeqs :
      refresh(train, LoweredRules, outcomes, now, base_sha).split = 0 =>
        cut_to(train, refresh(train, LoweredRules, outcomes, now, base_sha).train, 1)

\* two cars are checked and a pull waits when speculative_checks is
\* lowered: the refresh keeps the first car and the pull of the second
\* waits before the other
C32_Witness ==
  /\ too_many_cars(train, LoweredRules)
  /\ waiting_pulls # <<>>
  /\ refresh(train, LoweredRules, AllOk, now, base_sha).split = 0
  /\ Len(refresh(train, LoweredRules, AllOk, now, base_sha).train.cars) = 1
  /\ Len(refresh(train, LoweredRules, AllOk, now, base_sha).train.waiting_pulls)
       > Len(waiting_pulls)

\* ------------------------------------------------- a queue rule is deleted
\* the queue rules once the rule of queue q is deleted
RulesWithout(q) == [name \in QueueNames \ {q} |-> QueueRules[name]]

\* the pulls of the train in order, once the duplicates are removed
deduplicated(T) ==
  FlattenStill(remove_duplicate_pulls(T).cars)
    \o remove_duplicate_pulls(T).waiting_pulls

\* the positions of the pulls whose queue is q
queued_in(pulls, q) == {i \in 1..Len(pulls) : pulls[i].config.name = q}

\* the calls of _set_creation_failure that _populate_cars makes for a head
\* whose queue rule is gone
populate_reports(T, queue_rules) ==
  IF /\ T.cars # <<>>
     /\ \/ T.cars[Len(T.cars)].creation_state = "failed"
        \/ T.cars[Len(T.cars)].checks_conclusion = "failure"
  THEN 0
  ELSE IF iter_embarked_pulls(T) = <<>> THEN 0
  ELSE IF iter_embarked_pulls(T)[1].embarked_pull.config.name
            \notin DOMAIN queue_rules
  THEN 1 ELSE 0

\* the calls of _set_creation_failure in a refresh: one for each car whose
\* creation fails, and the one of _populate_cars
refresh_reports(T, queue_rules, outcomes, t, host_sha) ==
  Cardinality({j \in 1..refresh(T, queue_rules, outcomes, t, host_sha).used :
                 outcomes[j] = "failed"})
  + populate_reports(
      split_failed_batches(
        sync_configuration_change(remove_duplicate_pulls(T), queue_rules),
        queue_rules, outcomes).train,
      queue_rules)

\* the numbers of the pulls from position first on
numbers_from(pulls, first) ==
  {pulls[i].user_pull_request_number : i \in first..Len(pulls)}

\* the pulls from position first on are waiting in R, in their order, and
\* no car of R holds one of them
sliced_at(pulls, R, first) ==
  /\ SelectSeq(R.waiting_pulls,
               LAMBDA e : e.user_pull_request_number \in numbers_from(pulls, first))
       = SubSeq(pulls, first, Len(pulls))
  /\ numbers_from(FlattenStill(R.cars), 1) \cap numbers_from(pulls, first) = {}

\* the refresh r under rules that no longer define the queue of the pull at
\* position first: the pulls from there on are sliced, and when it is the
\* head no car is left and one creation failure is reported
deleted_queue_handled(T, pulls, first, queue_rules, outcomes, r) ==
  /\ sliced_at(pulls, r.train, first)
  /\ first = 1 =>
       /\ r.train.cars = <<>>
       /\ refresh_reports(T, queue_rules, outcomes, now, base_sha) = 1

\* C33: after a refresh under rules that no longer define the queue of a
\* pull, no car holds that pull or a pull behind it, these pulls are waiting
\* in their order, and when the pull is the head no car is left and one
\* creation failure is reported
C33_SlicedAtDeletedQueue ==
  \A q \in {"one", "two"} :
    queued_in(deduplicated(train), q) # {} =>
      \A outcomes \in OutcomeSeqs :
        deleted_queue_handled(
          train, deduplicated(train),
          SeqMin(queued_in(deduplicated(train), q)),
          RulesWithout(q), outcomes,
          refresh(train, RulesWithout(q), outcomes, now, base_sha))

C33_Witness ==
  /\ cars # <<>>
  /\ waiting_pulls # <<>>
  /\ \E q \in {"one", "two"} :
       /\ 1 \in queued_in(deduplicated(train), q)
       /\ refresh(train, RulesWithout(q), AllOk, now, base_sha).train.cars = <<>>
       /\ refresh(train, RulesWithout(q), AllOk, now, base_sha).train.waiting_pulls
            = deduplicated(train)
       /\ refresh_reports(train, RulesWithout(q), AllOk, now, base_sha) = 1

\* ------------------------------------------------ a pull is queued twice
\* the set of the numbers of a sequence of numbers
Range(xs) == {xs[i] : i \in 1..Len(xs)}

\* R holds every pull of T, once
each_once(T, R) ==
  /\ Range(get_pulls(R)) = Range(get_pulls(T))
  /\ NoDuplicates(get_pulls(R))

\* the longest list of pulls a stored train holds in its cars
MaxDuplicated == 3

\* the lists of at most n pull request numbers, a number more than once too
NumberLists(n) == UNION {[1..k -> PullNumbers] : k \in 0..n}

\* a pull queued in the queue "two", as test_train_remove_duplicates does
queued_pull(n) == EmbarkedPull(n, get_config("two", MaxPriority), 0)

\* the car of the pulls from..to of ns, once its draft pull request is
\* created; the pulls before are its parents
loaded_car(ns, from, to) ==
  [TrainCar([i \in 1..(to - from + 1) |-> queued_pull(ns[from + i - 1])],
            SubSeq(ns, 1, from - 1), InitialSha, <<>>)
     EXCEPT !.creation_state = "created",
            !.queue_pull_request_number = DraftNumberOffset + ns[to],
            !.head_branch = SubSeq(ns, 1, to)]

\* the cars of the pulls ns: the first one holds size pulls, the other
\* ones hold one pull
loaded_cars(ns, size) ==
  IF Len(ns) < size THEN <<>>
  ELSE [c \in 1..(Len(ns) - size + 1) |->
          IF c = 1 THEN loaded_car(ns, 1, size)
          ELSE loaded_car(ns, c + size - 1, c + size - 1)]

\* Train.load of a stored train that holds pulls twice, in its cars, in its
\* waiting pulls or in both, as the trains test_train_remove_duplicates
\* builds
InitDuplicates ==
  /\ \E ns \in NumberLists(MaxDuplicated), size \in 1..2 :
       cars = loaded_cars(ns, size)
  /\ \E ns \in NumberLists(MaxDuplicated - 1) :
       waiting_pulls = [i \in 1..Len(ns) |-> queued_pull(ns[i])]
  /\ current_base_sha = InitialSha
  /\ store = save(train)
  /\ now = 0
  /\ base_sha = InitialSha
  /\ merged_pulls = {}
  /\ last = Called("init", "none")
  /\ other_store = NoDocument
  /\ other_base_sha = InitialSha
  /\ delayed_refresh = NoPlan
  /\ host = NoHost
  /\ http = NoRequest
  /\ tasks = NoTasks

\* the refresh of a loaded train, with every answer of the host
NextDuplicates == Refresh(OutcomeSeqs, {})

SpecDuplicates == InitDuplicates /\ [][NextDuplicates]_vars

\* C34: a refresh of a train that holds a pull twice leaves every pull of
\* the train in it, once
C34_DuplicatesRemoved ==
  ~NoDuplicates(get_pulls(train)) =>
    \A outcomes \in OutcomeSeqs :
      each_once(train, refresh(train, QueueRules, outcomes, now, base_sha).train)

\* ------------------------------------------------ the last car has failed
\* C35: while the creation or the checks of the last car have failed,
\* _populate_cars leaves the cars and the waiting pulls as they are and
\* starts no car, whatever the speculative checks of the queue
C35_FailedLastCarFreezes ==
  (cars # <<>> /\ ~last_car_sound(train)) =>
    \A queue_rules \in {QueueRules, LoweredRules}, outcomes \in OutcomeSeqs :
      /\ populate_cars(train, queue_rules, outcomes, 0, now, base_sha).train
           = train
      /\ populate_cars(train, queue_rules, outcomes, 0, now, base_sha).used = 0

C35_Witness ==
  /\ Len(cars) > 1
  /\ waiting_pulls # <<>>
  /\ cars[Len(cars)].checks_conclusion = "failure"
  /\ missing_cars_of(train, LoweredRules[cars[1].initial_embarked_pulls[1].config.name]) < 0
  /\ populate_cars(train, LoweredRules, AllOk, 0, now, base_sha).train = train

\* --------------------------------------------------- one queue in the cars
\* the queue names of the pulls
queue_names(pulls) == {pulls[i].config.name : i \in 1..Len(pulls)}

\* C36: in every reachable state the pulls held in the cars are all queued
\* in the same queue
C36_OneQueueInCars == Cardinality(queue_names(FlattenStill(cars))) <= 1

\* a car is missing and the first waiting pull is of another queue than the
\* cars: the refresh starts no car
C36_Witness ==
  /\ cars # <<>>
  /\ waiting_pulls # <<>>
  /\ last_car_sound(train)
  /\ waiting_pulls[1].config.name \notin queue_names(FlattenStill(cars))
  /\ missing_cars_of(train, head_rule(train)) > 0
  /\ refresh(train, QueueRules, AllOk, now, base_sha).train = train

\* ------------------------------------------------- no pull leaves the train
\* every pull of T is in R
keeps_pulls(T, R) == Range(get_pulls(T)) \subseteq Range(get_pulls(R))

\* C37: the refresh, the reset and the add_pull of a reachable train leave
\* every pull of the train in its cars or in its waiting pulls
C37_NoPullLeaves ==
  /\ \A outcomes \in OutcomeSeqs :
       keeps_pulls(train, refresh(train, QueueRules, outcomes, now, base_sha).train)
  /\ keeps_pulls(train, reset(train))
  /\ \A n \in PullNumbers \ merged_pulls, config \in Configs :
       keeps_pulls(train, add_pull(train, pull_of(n, merged_pulls), config, now,
                                   base_sha, merged_pulls).train)

\* ------------------------------------------- created cars have their pull
\* C38: in every reachable state a car whose creation_state is "created"
\* has the number of its draft pull request
C38_CreatedHasPull ==
  \A i \in 1..Len(cars) :
    cars[i].creation_state = "created" =>
      cars[i].queue_pull_request_number # NoPull

\* --------------------------------------------- a refresh that adds no car
\* the refresh r of T splits no car and leaves as many cars as there were
no_additional_car(T, r) == r.split = 0 /\ Len(r.train.cars) = Len(T.cars)

\* C39: a refresh that ends with no additional car leaves the pulls of the
\* train in the order they were in
C39_OrderKept ==
  NoDuplicates(get_pulls(train)) =>
    \A outcomes \in OutcomeSeqs :
      no_additional_car(train, refresh(train, QueueRules, outcomes, now, base_sha)) =>
        get_pulls(refresh(train, QueueRules, outcomes, now, base_sha).train)
          = get_pulls(train)

\* ------------------------------------------ the order of the waiting pulls
\* C40: in every reachable state the waiting pulls are in non-increasing
\* order of effective priority
C40_WaitingByPriority ==
  \A i, j \in 1..Len(waiting_pulls) :
    i < j => waiting_pulls[i].config.effective_priority
               >= waiting_pulls[j].config.effective_priority

====
